---- MODULE Spec2Model ----
(***************************************************************************)
(* fear-of-sql: the validation pipeline collect_errors                     *)
(*   describe -> catalog nullability -> explain nullability -> resolve     *)
(*   -> extract_expected -> check                                          *)
(* modelled as a state machine over one database connection.               *)
(*                                                                         *)
(* Strings that the code inspects character by character (column names     *)
(* with their `!` / `?` suffix) are sequences of one-character strings.    *)
(* Python types are tokens ("str", "int", "NoneType", ...).                *)
(* A Python list is a sequence; a value that may be None is a record with  *)
(* an is_none field.                                                       *)
(***************************************************************************)
EXTENDS Integers, Sequences, FiniteSets, TLC

VARIABLES
    pc,                  \* position of the collect_errors call
    result_type,         \* the declared shape passed by the caller
    stmt_cols,           \* prepared_statement.cols of the statement (may be None)
    stmt_state,          \* "none" | "open" | "closed": the server-side prepared statement
    unresolved,          \* list[UnresolvedColumn] returned by describe
    origins,             \* list[ColumnOrigin] returned by describe
    query_overrides,     \* list[NullabilityOverride] parsed from the aliases
    catalog_nullability, \* list[Nullable] from pg_attribute
    nullables,           \* the positional vector filled by the explain walk
    explain_nullability, \* list[NullabilityOverride] returned by the explain walk
    resolved,            \* list[ResolvedColumn]
    errors,              \* the list collect_errors returns
    raised,              \* the exception that left collect_errors, kind "none" if none
    ops,                 \* the database operations sent on the connection, in order
    db_fault,            \* what the database failed to answer in this call, Absent if nothing
    explain_plan,        \* the plan of the EXPLAIN answer as the walk specification keeps it
    visited,             \* the nodes _visit_plan was called on, in call order, as paths
    queries,             \* FearOfSQL._queries: the registered producers, in order
    val_pc,              \* position of the validate_all call
    verbose,             \* the verbose keyword of the validate_all call, Absent if not passed
    cursor,              \* iterations of the loop of _validate entered so far
    count,               \* the local count of _validate
    log,                 \* the lines written to the logger "fear_of_sql", in order
    invoked,             \* positions in _queries of the producers invoked so far
    collected,           \* positions in _queries whose SQL reached collect_errors
    val_raised,          \* the exception that left validate_all, kind "none" if none
    conn,                \* the conn argument of validate_all and the state of its connection
    the_template,        \* the Template handed to render / Query / Execute
    built,               \* what was built from the template, kind "none" before
    fetch_answer,        \* what the database answers to the statement fetched
    fetch_type,          \* the result_type of the Query fetched
    fetched              \* the fetch call made and what it gave, method "none" before

\* the variables of one collect_errors call
pipeline_vars == <<pc, result_type, stmt_cols, stmt_state, unresolved, origins,
          query_overrides, catalog_nullability, nullables, explain_nullability,
          resolved, errors, raised, ops, db_fault>>

\* the variables of the plan, of a validate_all call and of a rendering
walk_vars == <<explain_plan, visited>>
validate_vars == <<queries, val_pc, verbose, cursor, count, log, invoked, collected,
                   val_raised, conn>>
render_vars == <<the_template, built>>

fetch_vars == <<fetch_answer, fetch_type, fetched>>

vars == <<pipeline_vars, walk_vars, validate_vars, render_vars, fetch_vars>>

(***************************************************************************)
(* Bounds of the model                                                     *)
(***************************************************************************)
MaxCols == 2     \* result columns of a statement
MaxFields == 2   \* fields of a declared record shape

(***************************************************************************)
(* Helpers for Python lists and dicts                                      *)
(***************************************************************************)
InList(x, s) == \E i \in 1..Len(s) : s[i] = x

\* list.index(x): the first position holding x
IndexOf(x, s) == CHOOSE i \in 1..Len(s) : s[i] = x /\ \A j \in 1..(i - 1) : s[j] # x

SeqsUpTo(S, n) == UNION {[1..k -> S] : k \in 0..n}

\* d[k] = v on a dict modelled as a function
DictSet(d, k, v) == [x \in (DOMAIN d) \cup {k} |-> IF x = k THEN v ELSE d[x]]

EmptyDict == [x \in {} |-> FALSE]

(***************************************************************************)
(* _types.py: the Type Catalog                                             *)
(***************************************************************************)
PgType(name, python_type) == [name |-> name, python_type |-> python_type]

PG_TYPES ==
    (16 :> PgType("bool", "bool")) @@ (17 :> PgType("bytea", "bytes")) @@
    (18 :> PgType("char", "str")) @@ (19 :> PgType("name", "str")) @@
    (20 :> PgType("int8", "int")) @@ (21 :> PgType("int2", "int")) @@
    (23 :> PgType("int4", "int")) @@ (25 :> PgType("text", "str")) @@
    (26 :> PgType("oid", "int")) @@ (114 :> PgType("json", "object")) @@
    (700 :> PgType("float4", "float")) @@ (701 :> PgType("float8", "float")) @@
    (790 :> PgType("money", "str")) @@ (1042 :> PgType("bpchar", "str")) @@
    (1043 :> PgType("varchar", "str")) @@ (1082 :> PgType("date", "date")) @@
    (1083 :> PgType("time", "time")) @@ (1114 :> PgType("timestamp", "datetime")) @@
    (1184 :> PgType("timestamptz", "datetime")) @@
    (1186 :> PgType("interval", "timedelta")) @@
    (1700 :> PgType("numeric", "Decimal")) @@ (2950 :> PgType("uuid", "UUID")) @@
    (3802 :> PgType("jsonb", "object")) @@
    (199 :> PgType("_json", "list[object]")) @@ (791 :> PgType("_money", "list[str]")) @@
    (1000 :> PgType("_bool", "list[bool]")) @@ (1001 :> PgType("_bytea", "list[bytes]")) @@
    (1002 :> PgType("_char", "list[str]")) @@ (1003 :> PgType("_name", "list[str]")) @@
    (1005 :> PgType("_int2", "list[int]")) @@ (1007 :> PgType("_int4", "list[int]")) @@
    (1009 :> PgType("_text", "list[str]")) @@ (1014 :> PgType("_bpchar", "list[str]")) @@
    (1015 :> PgType("_varchar", "list[str]")) @@ (1016 :> PgType("_int8", "list[int]")) @@
    (1021 :> PgType("_float4", "list[float]")) @@ (1022 :> PgType("_float8", "list[float]")) @@
    (1028 :> PgType("_oid", "list[int]")) @@
    (1115 :> PgType("_timestamp", "list[datetime]")) @@
    (1182 :> PgType("_date", "list[date]")) @@ (1183 :> PgType("_time", "list[time]")) @@
    (1185 :> PgType("_timestamptz", "list[datetime]")) @@
    (1187 :> PgType("_interval", "list[timedelta]")) @@
    (1231 :> PgType("_numeric", "list[Decimal]")) @@
    (2951 :> PgType("_uuid", "list[UUID]")) @@ (3807 :> PgType("_jsonb", "list[object]"))

NoneType == "NoneType"

(***************************************************************************)
(* The database the statements run against: the fixture table              *)
(*   cards(id int PK, front text NOT NULL, back text NOT NULL, notes text) *)
(* and the select-list expressions a statement may use.                    *)
(***************************************************************************)
CardsOid == 16384
ReviewsOid == 16390

\* pg_attribute rows of the fixture: (attrelid, attnum) -> attnotnull
PgAttribute ==
    (<<CardsOid, 2>> :> TRUE) @@ (<<CardsOid, 4>> :> FALSE)
    @@ (<<ReviewsOid, 3>> :> TRUE)

\* select-list expressions: what the row description says of each
SelectExprs ==
    { [expr |-> "front", type_oid |-> 25,  table_oid |-> CardsOid, column_attrnum |-> 2],
      [expr |-> "notes", type_oid |-> 25,  table_oid |-> CardsOid, column_attrnum |-> 4],
      [expr |-> "count(*)", type_oid |-> 20, table_oid |-> 0, column_attrnum |-> 0],
      [expr |-> "'127.0.0.1'::inet", type_oid |-> 869, table_oid |-> 0, column_attrnum |-> 0] }

\* raw column names (aliases), as the row description returns them
RawNames == { <<"a">>, <<"a", "!">>, <<"a", "?">>, <<"b">> }

\* one entry of prepared_statement.cols
ColumnInfos ==
    { [name |-> n, expr |-> e.expr, type_oid |-> e.type_oid,
       table_oid |-> e.table_oid, column_attrnum |-> e.column_attrnum] :
        n \in RawNames, e \in SelectExprs }

\* prepared_statement.cols: None for a statement without row description
NoCols == [is_none |-> TRUE, list |-> <<>>]
SomeCols(l) == [is_none |-> FALSE, list |-> l]
StmtCols == {NoCols} \cup {SomeCols(l) : l \in SeqsUpTo(ColumnInfos, MaxCols)}

(***************************************************************************)
(* Declared result shapes                                                  *)
(***************************************************************************)
\* a declared type: a plain type or a union (types.UnionType) with its __args__
PlainType(t) == [is_union |-> FALSE, args |-> <<t>>]
UnionType(a) == [is_union |-> TRUE, args |-> a]

DeclTypes == { PlainType("str"), UnionType(<<"int", NoneType>>) }

FieldNames == { <<"a">>, <<"b">> }

Fields == [name : FieldNames, type : DeclTypes]

NoShape == [kind |-> "none"]
ScalarShape(t) == [kind |-> "scalar", type |-> t]
RecordShape(fs) == [kind |-> "record", fields |-> fs]

\* the fields of a dataclass have distinct names
DistinctNames(fs) == \A i, j \in 1..Len(fs) : i # j => fs[i].name # fs[j].name

Shapes ==
    {NoShape} \cup {ScalarShape(t) : t \in DeclTypes}
    \cup {RecordShape(fs) : fs \in {f \in SeqsUpTo(Fields, MaxFields) : DistinctNames(f)}}

(***************************************************************************)
(* _errors.py: the validation errors (returned) and the raised exceptions  *)
(***************************************************************************)
ColumnCountMismatchError(expected, actual) ==
    [kind |-> "ColumnCountMismatchError", expected |-> expected, actual |-> actual]

ColumnNotFoundError(column) == [kind |-> "ColumnNotFoundError", column |-> column]

TypeMismatchError(column, expected, actual) ==
    [kind |-> "TypeMismatchError", column |-> column, expected |-> expected,
     actual |-> actual]

NullabilityError(column) == [kind |-> "NullabilityError", column |-> column]

UnsupportedTypeError(type_oid, column) ==
    [kind |-> "UnsupportedTypeError", type_oid |-> type_oid, column |-> column]

\* the subclasses of ValidationError
ValidationErrorKinds ==
    {"ColumnCountMismatchError", "ColumnNotFoundError", "TypeMismatchError",
     "NullabilityError"}

\* raised by pg8000 (conn.prepare, conn.run) and by the `raise RuntimeError` lines
DatabaseError == [kind |-> "DatabaseError"]
RuntimeError(what) == [kind |-> "RuntimeError", what |-> what]
\* raised by the unpacking of an empty answer
ValueError(what) == [kind |-> "ValueError", what |-> what]
NoException == [kind |-> "none"]

(***************************************************************************)
(* _describe.py                                                            *)
(***************************************************************************)
EndsWith(raw_name, ch) == Len(raw_name) > 0 /\ raw_name[Len(raw_name)] = ch

\* bool | None
NoOverride == [is_none |-> TRUE, value |-> FALSE]
SomeOverride(b) == [is_none |-> FALSE, value |-> b]

\* a parse that strips a second suffix character as well
ParseColumnNameNullabilityOverride_greedy(column_info) ==
    LET raw_name == column_info.name
        n == Len(raw_name)
        cut == IF n > 1 /\ raw_name[n - 1] \in {"!", "?"} THEN n - 2 ELSE n - 1
    IN
    IF EndsWith(raw_name, "!")
      THEN [name |-> SubSeq(raw_name, 1, cut), override |-> SomeOverride(FALSE)]
    ELSE IF EndsWith(raw_name, "?")
      THEN [name |-> SubSeq(raw_name, 1, cut), override |-> SomeOverride(TRUE)]
    ELSE [name |-> raw_name, override |-> NoOverride]

\* _parse_column_name_nullability_override: (name, nullable_override)
ParseColumnNameNullabilityOverride(column_info) ==
    LET raw_name == column_info.name IN
    IF EndsWith(raw_name, "!")
      THEN [name |-> SubSeq(raw_name, 1, Len(raw_name) - 1), override |-> SomeOverride(FALSE)]
    ELSE IF EndsWith(raw_name, "?")
      THEN [name |-> SubSeq(raw_name, 1, Len(raw_name) - 1), override |-> SomeOverride(TRUE)]
    ELSE [name |-> raw_name, override |-> NoOverride]

NullabilityOverride(name, is_nullable) == [name |-> name, is_nullable |-> is_nullable]

\* UnresolvedColumn.from_pg with a fallback type in place of the raise
UnresolvedColumn_from_pg_fallback(name, data) ==
    [raised |-> NoException,
     col |-> [name |-> name,
              python_type |-> IF data.type_oid \in DOMAIN PG_TYPES
                                THEN PG_TYPES[data.type_oid].python_type ELSE "object"]]

\* UnresolvedColumn.from_pg: the column, or the UnsupportedTypeError it raises when
\* PG_TYPES.get(type_oid) is None
UnresolvedColumn_from_pg(name, data) ==
    IF data.type_oid \notin DOMAIN PG_TYPES
      THEN [raised |-> UnsupportedTypeError(data.type_oid, name)]
    ELSE [raised |-> NoException,
          col |-> [name |-> name, python_type |-> PG_TYPES[data.type_oid].python_type]]

ColumnOrigin_from_pg(name, data) ==
    [name |-> name, table_oid |-> data.table_oid, column_attrnum |-> data.column_attrnum]

\* the loop of describe over cols[1..n], while no column raised
RECURSIVE DescribeLoop(_, _)
DescribeLoop(cols, n) ==
    IF n = 0
      THEN [raised |-> NoException, unresolved |-> <<>>, origins |-> <<>>, overrides |-> <<>>]
    ELSE
      LET before == DescribeLoop(cols, n - 1)
          col == cols[n]
          parsed == ParseColumnNameNullabilityOverride(col)
          made == UnresolvedColumn_from_pg(parsed.name, col)
      IN  IF before.raised # NoException THEN before
          ELSE IF made.raised # NoException
            THEN [before EXCEPT !.raised = made.raised]
          ELSE [raised |-> NoException,
                unresolved |-> Append(before.unresolved, made.col),
                origins |-> Append(before.origins, ColumnOrigin_from_pg(parsed.name, col)),
                overrides |->
                    IF parsed.override.is_none THEN before.overrides
                    ELSE Append(before.overrides,
                                NullabilityOverride(parsed.name, parsed.override.value))]

\* describe, after conn.prepare(sql) returned the statement with these cols
DescribeCols(cols) ==
    IF cols.is_none
      THEN [raised |-> NoException, unresolved |-> <<>>, origins |-> <<>>, overrides |-> <<>>]
    ELSE DescribeLoop(cols.list, Len(cols.list))

(***************************************************************************)
(* _resolve.py: catalog nullability                                        *)
(***************************************************************************)
Nullable(name, nullable) == [name |-> name, nullable |-> nullable]

\* conn.run("SELECT attnotnull FROM pg_catalog.pg_attribute WHERE ..."): the rows
PgAttributeRows(oid, num) ==
    IF <<oid, num>> \in DOMAIN PgAttribute THEN << <<PgAttribute[<<oid, num>>]>> >> ELSE <<>>

\* one iteration of the loop of collect_catalog_nullability
CatalogEntry(origin) ==
    IF origin.table_oid = 0
      THEN Nullable(origin.name, TRUE)
    ELSE LET result == PgAttributeRows(origin.table_oid, origin.column_attrnum)
         IN  Nullable(origin.name, ~result[1][1])

\* collect_catalog_nullability when no lookup fails
CollectCatalogNullability(origs) == [i \in 1..Len(origs) |-> CatalogEntry(origs[i])]

\* the origins whose nullability takes a pg_attribute lookup
NeedsLookup(origin) == origin.table_oid # 0

\* a lookup sent for every origin, the computed ones included
CatalogOps_every(origs, n) == [i \in 1..n |-> "PG_ATTRIBUTE"]

\* the lookups sent for origs[1..n]
RECURSIVE CatalogOps(_, _)
CatalogOps(origs, n) ==
    IF n = 0 THEN <<>>
    ELSE IF NeedsLookup(origs[n]) THEN Append(CatalogOps(origs, n - 1), "PG_ATTRIBUTE")
    ELSE CatalogOps(origs, n - 1)

(***************************************************************************)
(* _explain.py                                                             *)
(***************************************************************************)
\* a key the EXPLAIN JSON does not carry: raw.get(...) is None
Absent == ""

\* JoinType.from_raw / ParentRelation.from_raw: cls(value) if value else None,
\* None again on ValueError
JoinType_from_raw(value) ==
    IF value # Absent /\ value \in {"Left", "Right", "Full"} THEN value ELSE "None"

ParentRelation_from_raw(value) ==
    IF value # Absent /\ value \in {"Inner", "Outer"} THEN value ELSE "None"

\* a raw plan node of the EXPLAIN JSON
RawPlan(join_type, parent, output, plans) ==
    [JoinType |-> join_type, ParentRelationship |-> parent, Output |-> output,
     Plans |-> plans]

RECURSIVE ParsePlan(_)
ParsePlan(raw) ==
    [join_type |-> JoinType_from_raw(raw.JoinType),
     parent_relation |-> ParentRelation_from_raw(raw.ParentRelationship),
     output |-> raw.Output,
     children |-> [i \in 1..Len(raw.Plans) |-> ParsePlan(raw.Plans[i])]]

\* for col in plan.output[1..n]: if col in root_outputs: nullables[index] = True
RECURSIVE MarkOutputs(_, _, _, _)
MarkOutputs(output, n, root_outputs, nulls) ==
    IF n = 0 THEN nulls
    ELSE LET before == MarkOutputs(output, n - 1, root_outputs, nulls)
         IN  IF InList(output[n], root_outputs)
               THEN [before EXCEPT ![IndexOf(output[n], root_outputs)] = TRUE]
             ELSE before

\* _visit_plan, returning the vector it leaves in nullables
RECURSIVE VisitPlan(_, _, _)
RECURSIVE VisitChildren(_, _, _, _)
VisitPlan(plan, root_outputs, nulls) ==
    LET marked ==
            IF plan.join_type = "Full" \/ plan.parent_relation = "Inner"
              THEN MarkOutputs(plan.output, Len(plan.output), root_outputs, nulls)
            ELSE nulls
    IN  IF plan.join_type \in {"Left", "Right"}
          THEN VisitChildren(plan.children, Len(plan.children), root_outputs, marked)
        ELSE marked

VisitChildren(children, n, root_outputs, nulls) ==
    IF n = 0 THEN nulls
    ELSE VisitPlan(children[n], root_outputs,
                   VisitChildren(children, n - 1, root_outputs, nulls))

\* a walk that never descends
VisitTrace_root(plan, path) == <<path>>

\* the calls of _visit_plan in the order they are made: the node itself, then,
\* under a Left or Right join, the calls for each child in turn; a node is named
\* by the child indices leading to it from the root
RECURSIVE VisitTrace(_, _)
RECURSIVE TraceChildren(_, _, _)
VisitTrace(plan, path) ==
    <<path>> \o (IF plan.join_type \in {"Left", "Right"}
                   THEN TraceChildren(plan.children, Len(plan.children), path)
                 ELSE <<>>)

TraceChildren(children, n, path) ==
    IF n = 0 THEN <<>>
    ELSE TraceChildren(children, n - 1, path) \o VisitTrace(children[n], Append(path, n))

\* the vector after the walk of the plan of the EXPLAIN answer
ExplainVector(plan_dict) ==
    LET plan == ParsePlan(plan_dict)
    IN  VisitPlan(plan, plan.output, [i \in 1..Len(plan.output) |-> FALSE])

\* the list comprehension closing collect_explain_nullability, over nulls[1..n]
RECURSIVE ExplainOverrides(_, _, _)
ExplainOverrides(cols, nulls, n) ==
    IF n = 0 THEN <<>>
    ELSE IF nulls[n]
      THEN Append(ExplainOverrides(cols, nulls, n - 1),
                  NullabilityOverride(cols[n].name, TRUE))
    ELSE ExplainOverrides(cols, nulls, n - 1)

(***************************************************************************)
(* The plans PostgreSQL may answer for a statement with these select-list  *)
(* expressions: a scan, or a join of two scans that splits the expressions *)
(* between its outer and its inner child.                                  *)
(***************************************************************************)
ScanPlan(parent, output) == RawPlan(Absent, parent, output, <<>>)

JoinPlan(join_type, exprs, k) ==
    RawPlan(join_type, Absent, exprs,
            << ScanPlan("Outer", SubSeq(exprs, 1, k)),
               ScanPlan("Inner", SubSeq(exprs, k + 1, Len(exprs))) >>)

PlansFor(exprs) ==
    {ScanPlan(Absent, exprs)}
    \cup {JoinPlan(jt, exprs, k) : jt \in {"Inner", "Left", "Right", "Full"},
                                   k \in 0..Len(exprs)}

\* the select-list expressions of the prepared statement
StmtExprs(cols) == [i \in 1..Len(cols.list) |-> cols.list[i].expr]

(***************************************************************************)
(* _resolve.py: merge, expectation, check                                  *)
(***************************************************************************)
ResolvedColumn(name, mapped_type, nullable) ==
    [name |-> name, mapped_type |-> mapped_type, nullable |-> nullable]

\* {n.name: n.nullable for n in catalog[1..n]}: a later entry replaces an earlier one
RECURSIVE CatalogMap(_, _)
CatalogMap(catalog, n) ==
    IF n = 0 THEN EmptyDict
    ELSE DictSet(CatalogMap(catalog, n - 1), catalog[n].name, catalog[n].nullable)

\* for override in overrides[1..n]: null_map[override.name] = override.is_nullable
RECURSIVE Overlay(_, _, _)
Overlay(null_map, overrides, n) ==
    IF n = 0 THEN null_map
    ELSE DictSet(Overlay(null_map, overrides, n - 1),
                 overrides[n].name, overrides[n].is_nullable)

NullMap(catalog, explain_overrides, overrides) ==
    Overlay(Overlay(CatalogMap(catalog, Len(catalog)),
                    explain_overrides, Len(explain_overrides)),
            overrides, Len(overrides))

Resolve(cols, catalog, explain_overrides, overrides) ==
    LET null_map == NullMap(catalog, explain_overrides, overrides)
    IN  [i \in 1..Len(cols) |->
            ResolvedColumn(cols[i].name, cols[i].python_type, null_map[cols[i].name])]

\* _unwrap_types
UnwrapTypes(t) == IF t.is_union THEN t.args ELSE <<t.args[1]>>

ExpectedColumn(name, allowed_types) == [name |-> name, allowed_types |-> allowed_types]
ExpectedScalar(allowed_types) == [allowed_types |-> allowed_types]

\* extract_expected of a record shape (dataclass or pydantic model)
ExtractExpectedColumns(shape) ==
    [i \in 1..Len(shape.fields) |->
        ExpectedColumn(shape.fields[i].name, UnwrapTypes(shape.fields[i].type))]

\* extract_expected of any other shape; of None it is ExpectedScalar([None])
ExtractExpectedScalar(shape) ==
    IF shape.kind = "none" THEN ExpectedScalar(<<"None">>)
    ELSE ExpectedScalar(UnwrapTypes(shape.type))

\* check_column with the nullability test under an elif of the type test
CheckColumn_elif(col, allowed_types) ==
    IF ~InList(col.mapped_type, allowed_types)
      THEN <<TypeMismatchError(col.name, allowed_types, col.mapped_type)>>
    ELSE IF col.nullable /\ ~InList(NoneType, allowed_types)
      THEN <<NullabilityError(col.name)>>
    ELSE <<>>

CheckColumn(col, allowed_types) ==
    (IF ~InList(col.mapped_type, allowed_types)
       THEN <<TypeMismatchError(col.name, allowed_types, col.mapped_type)>>
     ELSE <<>>)
    \o
    (IF col.nullable /\ ~InList(NoneType, allowed_types)
       THEN <<NullabilityError(col.name)>>
     ELSE <<>>)

\* check_scalar that does not stop after the count error
CheckScalar_nostop(res, expected) ==
    IF Len(res) # 1
      THEN <<ColumnCountMismatchError(1, Len(res))>>
           \o (IF Len(res) > 0 THEN CheckColumn(res[1], expected.allowed_types) ELSE <<>>)
    ELSE CheckColumn(res[1], expected.allowed_types)

CheckScalar(res, expected) ==
    IF Len(res) # 1
      THEN <<ColumnCountMismatchError(1, Len(res))>>
    ELSE CheckColumn(res[1], expected.allowed_types)

\* find_column that looks at the first column only
FindColumn_first(res, name) ==
    IF Len(res) > 0 /\ res[1].name = name
      THEN [found |-> TRUE, col |-> res[1]]
    ELSE [found |-> FALSE, err |-> ColumnNotFoundError(name)]

\* find_column: the first column of that name, or the error
FindColumn(res, name) ==
    IF \E i \in 1..Len(res) : res[i].name = name
      THEN [found |-> TRUE,
            col |-> res[CHOOSE i \in 1..Len(res) :
                          res[i].name = name /\ \A j \in 1..(i - 1) : res[j].name # name]]
    ELSE [found |-> FALSE, err |-> ColumnNotFoundError(name)]

(***************************************************************************)
(* _validate.py: collect_errors                                            *)
(***************************************************************************)
\* what one expected column adds to the error list
CheckExpected(res, exp) ==
    LET hit == FindColumn(res, exp.name)
    IN  IF hit.found THEN CheckColumn(hit.col, exp.allowed_types) ELSE <<hit.err>>

\* the loop with the errors of each field put in front of the list
RECURSIVE CheckRecord_prepend(_, _, _)
CheckRecord_prepend(res, expected, n) ==
    IF n = 0 THEN <<>>
    ELSE CheckExpected(res, expected[n]) \o CheckRecord_prepend(res, expected, n - 1)

\* the loop `for exp in expected` over expected[1..n]
RECURSIVE CheckRecord(_, _, _)
CheckRecord(res, expected, n) ==
    IF n = 0 THEN <<>>
    ELSE CheckRecord(res, expected, n - 1) \o CheckExpected(res, expected[n])

\* lines 156-168 with a record shape also held to the column count
CheckShape_strict(res, shape) ==
    IF shape.kind # "record"
      THEN CheckScalar(res, ExtractExpectedScalar(shape))
    ELSE LET expected == ExtractExpectedColumns(shape)
         IN  CheckRecord(res, expected, Len(expected))
             \o (IF Len(res) > Len(expected)
                   THEN <<ColumnCountMismatchError(Len(expected), Len(res))>> ELSE <<>>)

\* lines 156-168: extract_expected and the check of the resolved columns
CheckShape(res, shape) ==
    IF shape.kind # "record"
      THEN CheckScalar(res, ExtractExpectedScalar(shape))
    ELSE LET expected == ExtractExpectedColumns(shape)
         IN  CheckRecord(res, expected, Len(expected))

\* collect_errors as one call on a connection that answers every lookup: what the
\* statement describes as (its cols), the declared shape, the plan of the EXPLAIN
CollectErrors(cols, shape, raw_plan) ==
    LET d == DescribeCols(cols) IN
    IF d.raised # NoException
      THEN [raised |-> d.raised, errors |-> <<>>, resolved |-> <<>>, nullables |-> <<>>,
            explain_nullability |-> <<>>]
    ELSE IF shape = NoShape
      THEN [raised |-> NoException, errors |-> <<>>, resolved |-> <<>>,
            nullables |-> <<>>, explain_nullability |-> <<>>]
    ELSE LET catalog == CollectCatalogNullability(d.origins)
             nulls == ExplainVector(raw_plan)
             explain == ExplainOverrides(d.unresolved, nulls, Len(nulls))
             res == Resolve(d.unresolved, catalog, explain, d.overrides)
         IN  [raised |-> NoException, errors |-> CheckShape(res, shape),
              resolved |-> res, nullables |-> nulls, explain_nullability |-> explain]

(***************************************************************************)
(* _render.py, _query.py: templates and the queries built from them        *)
(*                                                                         *)
(* A text is the sequence of its words and whitespace characters; a        *)
(* placeholder is one word.                                                *)
(***************************************************************************)
MaxInterpolations == 2   \* interpolations of a template

None == "None"

\* the values interpolated into a template, each with its str()
Values ==
    { [type |-> "int", text |-> "1"], [type |-> "str", text |-> "hi"],
      [type |-> NoneType, text |-> "None"] }

\* the literal strings of a template
Literals == { <<>>, <<"SELECT", " ", "a", " ">>, <<"=", " ">> }

Interpolation(value) == [value |-> value]

\* string.templatelib.Template: K interpolations between K + 1 literal strings
Template(strings, interpolations) ==
    [strings |-> strings, interpolations |-> interpolations]

Templates ==
    UNION { { Template(strings, [i \in 1..k |-> Interpolation(values[i])]) :
                strings \in [1..(k + 1) -> Literals], values \in [1..k -> Values] } :
            k \in 0..MaxInterpolations }

\* str(n) of a positive integer, in decimal
DigitChars == <<"0", "1", "2", "3", "4", "5", "6", "7", "8", "9">>

RECURSIVE Decimal(_)
Decimal(n) ==
    IF n < 10 THEN DigitChars[n + 1]
    ELSE Decimal(n \div 10) \o DigitChars[(n % 10) + 1]

\* f"${i + 1}" for the 0-based index i
Placeholder(i) == "$" \o Decimal(i + 1)

RenderedQuery(sql, params) == [sql |-> sql, params |-> params]

\* "".join(parts[1..n])
RECURSIVE JoinParts(_, _)
JoinParts(parts, n) ==
    IF n = 0 THEN <<>> ELSE JoinParts(parts, n - 1) \o parts[n]

\* render with each value formatted into the text in place of a placeholder
RECURSIVE RenderLoop_spliced(_, _)
RenderLoop_spliced(template, n) ==
    IF n = 0 THEN [parts |-> <<>>, params |-> <<>>]
    ELSE
      LET before == RenderLoop_spliced(template, n - 1)
          i == n - 1
          with_s == Append(before.parts, template.strings[n])
      IN  IF i < Len(template.interpolations)
            THEN [parts |-> Append(with_s, <<template.interpolations[i + 1].value.text>>),
                  params |-> Append(before.params, template.interpolations[i + 1].value)]
          ELSE [parts |-> with_s, params |-> before.params]

\* the loop of render over template.strings[1..n]; i is the index enumerate gives
RECURSIVE RenderLoop(_, _)
RenderLoop(template, n) ==
    IF n = 0 THEN [parts |-> <<>>, params |-> <<>>]
    ELSE
      LET before == RenderLoop(template, n - 1)
          i == n - 1
          with_s == Append(before.parts, template.strings[n])
      IN  IF i < Len(template.interpolations)
            THEN [parts |-> Append(with_s, <<Placeholder(i)>>),
                  params |-> Append(before.params, template.interpolations[i + 1].value)]
          ELSE [parts |-> with_s, params |-> before.params]

Render(template) ==
    LET done == RenderLoop(template, Len(template.strings))
    IN  RenderedQuery(JoinParts(done.parts, Len(done.parts)), done.params)

\* the sql argument of Query / Execute: a Template or a str
TemplateSql(t) == [is_template |-> TRUE, template |-> t]
StrSql(text) == [is_template |-> FALSE, text |-> text]

\* Query.__init__
Query_init(sql, shape, args) ==
    IF sql.is_template
      THEN LET rendered == Render(sql.template)
           IN  [cls |-> "Query", sql |-> rendered.sql, args |-> rendered.params,
                result_type |-> shape]
    ELSE [cls |-> "Query", sql |-> sql.text, args |-> args, result_type |-> shape]

\* Execute.__init__
Execute_init(sql, args) ==
    IF sql.is_template
      THEN LET rendered == Render(sql.template)
           IN  [cls |-> "Execute", sql |-> rendered.sql, args |-> rendered.params]
    ELSE [cls |-> "Execute", sql |-> sql.text, args |-> args]

\* what the rendering specification keeps of the object built last
NotBuilt == [kind |-> "none"]
Built(kind, from_template, obj) ==
    [kind |-> kind, from_template |-> from_template, obj |-> obj]

NoTemplate == Template(<< <<>> >>, <<>>)

RenderIdle ==
    /\ the_template = NoTemplate
    /\ built = NotBuilt

(***************************************************************************)
(* _validate.py: the registry FearOfSQL and validate_all                   *)
(*                                                                         *)
(* A SQL text is the sequence of its words and of the whitespace           *)
(* characters between them; a producer is a function with a name, its      *)
(* parameters and the query object it returns.                             *)
(***************************************************************************)
MaxQueries == 2   \* producers registered on the registry

TypeError(what) == [kind |-> "TypeError", what |-> what]

\* inspect.Parameter.empty
Empty == [type |-> "empty", has_origin |-> FALSE, origin |-> "empty"]

\* an annotation: a class, or a generic alias with its __origin__
ClassAnnotation(t) == [type |-> t, has_origin |-> FALSE, origin |-> t]
GenericAlias(t, origin) == [type |-> t, has_origin |-> TRUE, origin |-> origin]

DUMMY_VALUES ==
    ("str" :> "''") @@ ("int" :> "0") @@ ("float" :> "0.0") @@ ("bool" :> "False") @@
    ("bytes" :> "b''") @@ ("date" :> "date(2000, 1, 1)") @@ ("time" :> "time()") @@
    ("datetime" :> "datetime(2000, 1, 1, tzinfo=utc)") @@
    ("timedelta" :> "timedelta()") @@ ("Decimal" :> "Decimal(0)") @@
    ("UUID" :> "UUID(int=0)") @@ ("dict" :> "{}") @@ ("list" :> "[]")

\* _DUMMY_VALUES.get(key)
DummyGet(key) == IF key \in DOMAIN DUMMY_VALUES THEN DUMMY_VALUES[key] ELSE None

DummyArg(param_name, value) == [param_name |-> param_name, value |-> value]

\* _make_dummy_args that gives None to a parameter it finds no dummy value for
RECURSIVE MakeDummyArgs_lenient(_, _)
MakeDummyArgs_lenient(fn, n) ==
    IF n = 0 THEN [raised |-> NoException, result |-> <<>>]
    ELSE
      LET before == MakeDummyArgs_lenient(fn, n - 1)
          param == fn.params[n]
      IN  [raised |-> NoException,
           result |-> Append(before.result,
                             DummyArg(param.param_name, DummyGet(param.annotation.type)))]

\* _make_dummy_args over the parameters 1..n of fn: the list, or the TypeError raised
RECURSIVE MakeDummyArgs(_, _)
MakeDummyArgs(fn, n) ==
    IF n = 0 THEN [raised |-> NoException, result |-> <<>>]
    ELSE
      LET before == MakeDummyArgs(fn, n - 1)
          param == fn.params[n]
          annotation == param.annotation
          first == DummyGet(annotation.type)
          dummy_value == IF first = None /\ annotation.has_origin
                           THEN DummyGet(annotation.origin) ELSE first
      IN  IF before.raised # NoException THEN before
          ELSE IF annotation = Empty
            THEN [raised |-> TypeError("has no type annotation"), result |-> <<>>]
          ELSE IF dummy_value = None
            THEN [raised |-> TypeError("no dummy value for type"), result |-> <<>>]
          ELSE [raised |-> NoException,
                result |-> Append(before.result, DummyArg(param.param_name, dummy_value))]

\* str.split() of a SQL text: its words, the whitespace dropped
Whitespace == {" ", "\n", "\t"}
IsWord(token) == token \notin Whitespace
Split(sql) == SelectSeq(sql, IsWord)

\* " ".join(words)
RECURSIVE JoinSpace(_, _)
JoinSpace(words, n) ==
    IF n = 0 THEN <<>>
    ELSE IF n = 1 THEN <<words[1]>>
    ELSE JoinSpace(words, n - 1) \o <<" ", words[n]>>

\* sql_oneline = " ".join(str(query_obj.sql).split())
SqlOneline(sql) == JoinSpace(Split(sql), Len(Split(sql)))

\* a Query or Execute object a producer builds from a SQL string and its arguments
QueryObject(sql, shape) == Query_init(StrSql(sql), shape, <<>>)
ExecuteObject(sql) == Execute_init(StrSql(sql), <<>>)

\* result_type = query_obj.result_type if isinstance(query_obj, Query) else None
ResultTypeOf(query_obj) ==
    IF query_obj.cls = "Query" THEN query_obj.result_type ELSE NoShape

Param(param_name, annotation) == [param_name |-> param_name, annotation |-> annotation]

Producer(name, params, returns) == [name |-> name, params |-> params, returns |-> returns]

\* the producers that may be registered: two that validate, three whose query
\* fails (one error, two errors, an unsupported column type), and three whose
\* parameters have no dummy value
Producers ==
    { Producer("list_cards", <<>>,
               QueryObject(<<"SELECT", " ", "front", " ", "AS", " ", "a", "\n", " ", " ",
                             "FROM", " ", "cards">>,
                           RecordShape(<<[name |-> <<"a">>, type |-> PlainType("str")]>>))),
      Producer("add_card",
               <<Param("front", ClassAnnotation("str")),
                 Param("tags", GenericAlias("list[int]", "list"))>>,
               ExecuteObject(<<"INSERT", " ", "INTO", " ", "cards", "\n", "VALUES", " ",
                               "($1,", " ", "$2)">>)),
      Producer("bad_query", <<>>,
               QueryObject(<<"SELECT", " ", "front", " ", "AS", " ", "b", " ",
                             "FROM", " ", "cards">>,
                           RecordShape(<<[name |-> <<"a">>, type |-> PlainType("str")]>>))),
      Producer("count_cards", <<>>,
               QueryObject(<<"SELECT", " ", "count(*)", " ", "AS", " ", "a", "\n",
                             "FROM", " ", "cards">>,
                           ScalarShape(PlainType("str")))),
      Producer("card_address", <<>>,
               QueryObject(<<"SELECT", " ", "'127.0.0.1'::inet", " ", "AS", " ", "a">>,
                           ScalarShape(PlainType("str")))),
      Producer("no_annotation", <<Param("card_id", Empty)>>,
               ExecuteObject(<<"DELETE", " ", "FROM", " ", "cards">>)),
      Producer("no_dummy", <<Param("card_id", ClassAnnotation("complex"))>>,
               ExecuteObject(<<"DELETE", " ", "FROM", " ", "cards">>)),
      Producer("no_dummy_origin",
               <<Param("front", ClassAnnotation("str")),
                 Param("ids", GenericAlias("set[int]", "set"))>>,
               ExecuteObject(<<"DELETE", " ", "FROM", " ", "cards">>)) }

\* the row description PostgreSQL answers for the SQL of a producer
ColsOf(name, e) ==
    [name |-> name, expr |-> e.expr, type_oid |-> e.type_oid,
     table_oid |-> e.table_oid, column_attrnum |-> e.column_attrnum]

SelectExpr(expr) == CHOOSE e \in SelectExprs : e.expr = expr

PreparedCols(sql) ==
    IF sql[1] # "SELECT" THEN NoCols
    ELSE SomeCols(<<ColsOf(<<sql[7]>>, SelectExpr(sql[3]))>>)

\* an exception on its way out of validate_all, with the attributes set on it:
\* a ValidationError has the class attributes query_name and sql, both None
Propagating(exc) ==
    [exc |-> exc,
     attrs |-> IF exc.kind \in ValidationErrorKinds
                 THEN ("query_name" :> None) @@ ("sql" :> None)
               ELSE EmptyDict]

\* error.query_name = ...; error.sql = ...
SetAttr(propagating, attr, value) ==
    [propagating EXCEPT !.attrs = DictSet(propagating.attrs, attr, value)]

\* the lines of the logger
OkLine(name, sql_oneline) == <<"ok:", name, sql_oneline>>
ErrLine(name, error, sql_oneline) == <<"ERR:", name, error, sql_oneline>>

\* the conn argument: a URL (validate_all connects and closes) or a connection
Conn(given, state) == [given |-> given, state |-> state]
NoConn == Conn(Absent, "none")

NoPlan == [is_none |-> TRUE]
SomePlan(raw_plan) == [is_none |-> FALSE, plan |-> raw_plan]

ValidateIdle ==
    /\ queries = <<>>
    /\ val_pc = "idle"
    /\ verbose = Absent
    /\ cursor = 0
    /\ count = 0
    /\ log = <<>>
    /\ invoked = <<>>
    /\ collected = <<>>
    /\ val_raised = Propagating(NoException)
    /\ conn = NoConn

(***************************************************************************)
(* _query.py, _executor.py, _psycopg_executor.py, _sync_client.py,         *)
(* _async_client.py: running a Query and building values from its rows     *)
(***************************************************************************)
MaxRows == 2   \* rows of an answer

\* the values a cell of a row may hold
Cells == {"1", "2"}

\* the names of the columns the statement answers with
ColumnLists == { <<"id">>, <<"id", "front">> }

IntField(name) == [name |-> name, type |-> PlainType("int")]

\* result_type: int, or a dataclass with the fields id, or id and front
ResultTypes ==
    { ScalarShape(PlainType("int")),
      RecordShape(<<IntField("id")>>),
      RecordShape(<<IntField("id"), IntField("front")>>) }

\* what the database answers to the statement: the cursor description (None for
\* a statement without a result set) and the rows, each with one cell per column
Answer(cols, has_description, rows) ==
    [cols |-> cols, has_description |-> has_description, rows |-> rows]

Answers ==
    { Answer(cols, d, rows) :
        cols \in ColumnLists, d \in BOOLEAN,
        rows \in UNION { SeqsUpTo([1..Len(c) -> Cells], MaxRows) : c \in ColumnLists } }

\* a statement without a result set has no rows, and every row is as wide as the
\* column list
WellFormed(answer) ==
    /\ \A i \in 1..Len(answer.rows) : Len(answer.rows[i]) = Len(answer.cols)
    /\ ~answer.has_description => answer.rows = <<>>

NoRow == [is_none |-> TRUE]
SomeRow(row) == [is_none |-> FALSE, row |-> row]

\* what a fetch call gives back to its caller
NotReturned == [kind |-> "nothing"]
ReturnedNone == [kind |-> "None"]
ReturnedValue(value) == [kind |-> "value", value |-> value]
ReturnedList(values) == [kind |-> "list", values |-> values]

Outcome(exc, returned) == [raised |-> exc, returned |-> returned]

\* an instance of a dataclass
Instance(shape, attrs) == [cls |-> "instance", of |-> shape, attrs |-> attrs]

\* a row of asyncpg (Record) or of psycopg with dict_row: column name -> cell, in
\* column order
Mapping(cols, row) == [i \in 1..Len(cols) |-> <<cols[i], row[i]>>]

\* shape(**kwargs) of a dataclass: TypeError unless the keywords are the fields
Instantiate(shape, kwargs) ==
    LET keys == {kwargs[i][1] : i \in 1..Len(kwargs)}
        names == {shape.fields[j].name : j \in 1..Len(shape.fields)}
    IN  IF keys # names
          THEN Outcome(TypeError("__init__() got unexpected or missing arguments"),
                       NotReturned)
        ELSE Outcome(NoException,
                     ReturnedValue(Instance(shape,
                        [n \in names |->
                            kwargs[CHOOSE i \in 1..Len(kwargs) : kwargs[i][1] = n][2]])))

\* _construct_result
ConstructResult(shape, row) ==
    IF shape.kind = "record"
      THEN Instantiate(shape, row)
    ELSE Outcome(NoException, ReturnedValue(row[1][2]))

\* _construct_dbapi_result
ConstructDbapiResult(shape, cols, row) ==
    IF shape.kind = "record"
      THEN Instantiate(shape, Mapping(cols, row))
    ELSE Outcome(NoException, ReturnedValue(row[1]))

\* _col_names
ColNames(answer) ==
    IF ~answer.has_description
      THEN Outcome(RuntimeError("query returned no description"), NotReturned)
    ELSE Outcome(NoException, ReturnedList(answer.cols))

\* the executors a fetch may be handed
Executors == {"dbapi", "asyncpg", "psycopg", "other"}

\* _async_executor
AsyncExecutor(executor) ==
    IF executor \in {"asyncpg", "psycopg"}
      THEN Outcome(NoException, ReturnedValue(executor))
    ELSE Outcome(TypeError("unsupported executor type"), NotReturned)

\* cursor.fetchone() giving the last row
Fetchone_last(rows) ==
    IF rows = <<>> THEN NoRow ELSE SomeRow(rows[Len(rows)])

\* cursor.fetchone(), connection.fetchrow(): the first row, None if there is none
Fetchone(rows) ==
    IF rows = <<>> THEN NoRow ELSE SomeRow(rows[1])

\* AsyncpgExecutor.fetch_one, PsycopgExecutor.fetch_one
Executor_fetch_one(answer) ==
    LET first == Fetchone(answer.rows)
    IN  IF first.is_none THEN NoRow ELSE SomeRow(Mapping(answer.cols, first.row))

\* AsyncpgExecutor.fetch_all, PsycopgExecutor.fetch_all
Executor_fetch_all(answer) ==
    [i \in 1..Len(answer.rows) |-> Mapping(answer.cols, answer.rows[i])]

\* [construct(row) for row in rows]: the first exception ends the comprehension
RECURSIVE ConstructAll(_, _, _)
ConstructAll(outcomes, n, done) ==
    IF n > Len(outcomes) THEN Outcome(NoException, ReturnedList(done))
    ELSE IF outcomes[n].raised # NoException THEN outcomes[n]
    ELSE ConstructAll(outcomes, n + 1, Append(done, outcomes[n].returned.value))

\* Query.fetch_one
Query_fetch_one(query, executor, answer) ==
    LET async_executor == AsyncExecutor(executor)
        row == Executor_fetch_one(answer)
    IN  IF async_executor.raised # NoException THEN async_executor
        ELSE IF row.is_none
          THEN Outcome(RuntimeError("fetch_one: query returned no rows"), NotReturned)
        ELSE ConstructResult(query.result_type, row.row)

\* Query.fetch_optional
Query_fetch_optional(query, executor, answer) ==
    LET async_executor == AsyncExecutor(executor)
        row == Executor_fetch_one(answer)
    IN  IF async_executor.raised # NoException THEN async_executor
        ELSE IF row.is_none THEN Outcome(NoException, ReturnedNone)
        ELSE ConstructResult(query.result_type, row.row)

\* Query.fetch_all
Query_fetch_all(query, executor, answer) ==
    LET async_executor == AsyncExecutor(executor)
        rows == Executor_fetch_all(answer)
    IN  IF async_executor.raised # NoException THEN async_executor
        ELSE ConstructAll([i \in 1..Len(rows) |-> ConstructResult(query.result_type, rows[i])],
                          1, <<>>)

\* Query.fetch_one_sync
Query_fetch_one_sync(query, answer) ==
    LET row == Fetchone(answer.rows)
        cols == ColNames(answer)
    IN  IF row.is_none
          THEN Outcome(RuntimeError("fetch_one: query returned no rows"), NotReturned)
        ELSE IF cols.raised # NoException THEN cols
        ELSE ConstructDbapiResult(query.result_type, cols.returned.values, row.row)

\* Query.fetch_optional_sync
Query_fetch_optional_sync(query, answer) ==
    LET row == Fetchone(answer.rows)
        cols == ColNames(answer)
    IN  IF row.is_none THEN Outcome(NoException, ReturnedNone)
        ELSE IF cols.raised # NoException THEN cols
        ELSE ConstructDbapiResult(query.result_type, cols.returned.values, row.row)

\* Query.fetch_all_sync
Query_fetch_all_sync(query, answer) ==
    LET cols == ColNames(answer)
    IN  IF cols.raised # NoException THEN cols
        ELSE ConstructAll([i \in 1..Len(answer.rows) |->
                              ConstructDbapiResult(query.result_type, cols.returned.values,
                                                   answer.rows[i])], 1, <<>>)

\* SyncClient.fetch_one / fetch_optional / fetch_all
SyncClient_fetch_one(sql, shape, args, answer) ==
    Query_fetch_one_sync(Query_init(StrSql(sql), shape, args), answer)
SyncClient_fetch_optional(sql, shape, args, answer) ==
    Query_fetch_optional_sync(Query_init(StrSql(sql), shape, args), answer)
SyncClient_fetch_all(sql, shape, args, answer) ==
    Query_fetch_all_sync(Query_init(StrSql(sql), shape, args), answer)

\* AsyncClient.fetch_one / fetch_optional / fetch_all
AsyncClient_fetch_one(sql, shape, args, executor, answer) ==
    Query_fetch_one(Query_init(StrSql(sql), shape, args), executor, answer)
AsyncClient_fetch_optional(sql, shape, args, executor, answer) ==
    Query_fetch_optional(Query_init(StrSql(sql), shape, args), executor, answer)
AsyncClient_fetch_all(sql, shape, args, executor, answer) ==
    Query_fetch_all(Query_init(StrSql(sql), shape, args), executor, answer)

\* how a fetch is called: on a Query or on a client, sync or async
Call(via, executor) == [via |-> via, executor |-> executor]
Calls == { Call(via, executor) : via \in {"Query", "client"}, executor \in Executors }

\* what the fetching specification keeps of the call made
NotFetched == [method |-> "none"]
Fetched(method, call, out) == [method |-> method, call |-> call, out |-> out]

NoAnswer == Answer(<<"id">>, TRUE, <<>>)

FetchIdle ==
    /\ fetch_answer = NoAnswer
    /\ fetch_type = ScalarShape(PlainType("int"))
    /\ fetched = NotFetched

(***************************************************************************)
(* The state machine of one collect_errors call                            *)
(***************************************************************************)
PipelineIdle ==
    /\ pc = "idle"
    /\ result_type = NoShape
    /\ stmt_cols = NoCols
    /\ stmt_state = "none"
    /\ unresolved = <<>>
    /\ origins = <<>>
    /\ query_overrides = <<>>
    /\ catalog_nullability = <<>>
    /\ nullables = <<>>
    /\ explain_nullability = <<>>
    /\ resolved = <<>>
    /\ errors = <<>>
    /\ raised = NoException
    /\ ops = <<>>
    /\ db_fault = Absent

Init ==
    /\ PipelineIdle
    /\ explain_plan = NoPlan
    /\ visited = <<>>
    /\ ValidateIdle
    /\ RenderIdle
    /\ FetchIdle

\* collect_errors is entered with a shape; describe prepares the statement (the
\* PREPARE may be refused) and walks its columns (a column may raise)
Describe ==
    /\ pc = "idle"
    /\ \E shape \in Shapes, cols \in StmtCols, prepare_ok \in BOOLEAN :
        /\ result_type' = shape
        /\ ops' = Append(ops, "PREPARE")
        /\ db_fault' = (IF prepare_ok THEN Absent ELSE "prepare_db_error")
        /\ IF ~prepare_ok
             THEN /\ cols = NoCols
                  /\ raised' = DatabaseError
                  /\ pc' = "raised"
                  /\ UNCHANGED <<stmt_cols, stmt_state, unresolved, origins, query_overrides>>
           ELSE LET d == DescribeCols(cols) IN
                  /\ stmt_cols' = cols
                  /\ stmt_state' = "open"
                  /\ raised' = d.raised
                  /\ pc' = IF d.raised # NoException THEN "raised" ELSE "described"
                  /\ IF d.raised # NoException
                       THEN UNCHANGED <<unresolved, origins, query_overrides>>
                     ELSE /\ unresolved' = d.unresolved
                          /\ origins' = d.origins
                          /\ query_overrides' = d.overrides
    /\ UNCHANGED <<catalog_nullability, nullables, explain_nullability, resolved, errors>>
    /\ UNCHANGED <<walk_vars, validate_vars, render_vars, fetch_vars>>

\* the no-shape return placed after the try block instead of before it
ReturnNoShape_late ==
    /\ pc = "described"
    /\ result_type = NoShape
    /\ stmt_state' = "closed"
    /\ ops' = ops \o CatalogOps(origins, Len(origins)) \o <<"PG_PREPARED", "EXPLAIN", "CLOSE">>
    /\ errors' = <<>>
    /\ pc' = "returned"
    /\ UNCHANGED <<result_type, stmt_cols, unresolved, origins, query_overrides,
                   catalog_nullability, nullables, explain_nullability, resolved, raised,
                   db_fault>>
    /\ UNCHANGED <<walk_vars, validate_vars, render_vars, fetch_vars>>

\* lines 135-137: no shape, the statement is closed and [] returned
ReturnNoShape ==
    /\ pc = "described"
    /\ result_type = NoShape
    /\ stmt_state' = "closed"
    /\ ops' = Append(ops, "CLOSE")
    /\ errors' = <<>>
    /\ pc' = "returned"
    /\ UNCHANGED <<result_type, stmt_cols, unresolved, origins, query_overrides,
                   catalog_nullability, nullables, explain_nullability, resolved, raised,
                   db_fault>>
    /\ UNCHANGED <<walk_vars, validate_vars, render_vars, fetch_vars>>

\* the lookups with a missing pg_attribute row taken as nullable
CatalogLookups_default ==
    /\ pc = "described"
    /\ result_type # NoShape
    /\ \E fault_at \in 0..Len(origins), fault \in {"db_error", "no_row"} :
        /\ fault_at = 0 => fault = "db_error"
        /\ fault_at # 0 => NeedsLookup(origins[fault_at])
        /\ IF fault_at = 0
             THEN /\ catalog_nullability' = CollectCatalogNullability(origins)
                  /\ ops' = ops \o CatalogOps(origins, Len(origins))
                  /\ pc' = "catalogued"
                  /\ UNCHANGED <<stmt_state, raised, db_fault>>
           ELSE IF fault = "no_row"
             THEN /\ catalog_nullability' =
                        [CollectCatalogNullability(origins) EXCEPT ![fault_at].nullable = TRUE]
                  /\ db_fault' = "pg_attribute_no_row"
                  /\ ops' = ops \o CatalogOps(origins, Len(origins))
                  /\ pc' = "catalogued"
                  /\ UNCHANGED <<stmt_state, raised>>
           ELSE /\ raised' = DatabaseError
                /\ db_fault' = "pg_attribute_db_error"
                /\ ops' = Append(ops \o CatalogOps(origins, fault_at), "CLOSE")
                /\ stmt_state' = "closed"
                /\ pc' = "raised"
                /\ UNCHANGED catalog_nullability
    /\ UNCHANGED <<result_type, stmt_cols, unresolved, origins, query_overrides,
                   nullables, explain_nullability, resolved, errors>>
    /\ UNCHANGED <<walk_vars, validate_vars, render_vars, fetch_vars>>

\* lines 138-142 (and 148-149 when a lookup fails): the pg_attribute lookups.
\* fault_at = 0: every lookup answers; otherwise the lookup of origins[fault_at]
\* raises a database error or finds no row.
CatalogLookups ==
    /\ pc = "described"
    /\ result_type # NoShape
    /\ \E fault_at \in 0..Len(origins), fault \in {"db_error", "no_row"} :
        /\ fault_at = 0 => fault = "db_error"
        /\ fault_at # 0 => NeedsLookup(origins[fault_at])
        /\ IF fault_at = 0
             THEN /\ catalog_nullability' = CollectCatalogNullability(origins)
                  /\ ops' = ops \o CatalogOps(origins, Len(origins))
                  /\ pc' = "catalogued"
                  /\ UNCHANGED <<stmt_state, raised, db_fault>>
           ELSE /\ raised' = IF fault = "db_error" THEN DatabaseError
                             ELSE RuntimeError("pg_attribute row not found")
                /\ db_fault' = (IF fault = "db_error" THEN "pg_attribute_db_error"
                                ELSE "pg_attribute_no_row")
                /\ ops' = Append(ops \o CatalogOps(origins, fault_at), "CLOSE")
                /\ stmt_state' = "closed"
                /\ pc' = "raised"
                /\ UNCHANGED catalog_nullability
    /\ UNCHANGED <<result_type, stmt_cols, unresolved, origins, query_overrides,
                   nullables, explain_nullability, resolved, errors>>
    /\ UNCHANGED <<walk_vars, validate_vars, render_vars, fetch_vars>>

\* what conn.run answers to the two statements of collect_explain_nullability: a
\* database error, None or the empty list for a missing row, or the rows
ExplainOutcomes ==
    {"ok", "prepared_db_error", "prepared_no_row", "prepared_empty",
     "explain_db_error", "explain_no_rows", "explain_empty"}

\* lines 143-149: the pg_prepared_statements lookup, the EXPLAIN, the walk of the
\* plan, and the finally clause closing the statement
ExplainWalk ==
    /\ pc = "catalogued"
    /\ \E outcome \in ExplainOutcomes, plan_dict \in PlansFor(StmtExprs(stmt_cols)) :
        LET nulls == ExplainVector(plan_dict) IN
        /\ stmt_state' = "closed"
        /\ IF outcome = "ok"
             THEN /\ nullables' = nulls
                  /\ explain_nullability' = ExplainOverrides(unresolved, nulls, Len(nulls))
                  /\ ops' = ops \o <<"PG_PREPARED", "EXPLAIN", "CLOSE">>
                  /\ pc' = "explained"
                  /\ UNCHANGED <<raised, db_fault>>
           ELSE /\ raised' = CASE outcome = "prepared_db_error" -> DatabaseError
                               [] outcome = "explain_db_error" -> DatabaseError
                               [] outcome = "prepared_no_row" ->
                                    RuntimeError("pg_prepared_statements row not found")
                               [] outcome = "prepared_empty" ->
                                    ValueError("[[param_count]] = param_result")
                               [] outcome = "explain_empty" ->
                                    ValueError("[[plan_wrapper]] = result")
                               [] OTHER -> RuntimeError("EXPLAIN returned no rows")
                /\ db_fault' = outcome
                /\ ops' = IF outcome \in {"prepared_db_error", "prepared_no_row",
                                          "prepared_empty"}
                            THEN ops \o <<"PG_PREPARED", "CLOSE">>
                          ELSE ops \o <<"PG_PREPARED", "EXPLAIN", "CLOSE">>
                /\ pc' = "raised"
                /\ UNCHANGED <<nullables, explain_nullability>>
    /\ UNCHANGED <<result_type, stmt_cols, unresolved, origins, query_overrides,
                   catalog_nullability, resolved, errors>>
    /\ UNCHANGED <<walk_vars, validate_vars, render_vars, fetch_vars>>

\* lines 150-168 raising the first error of the list, as _validate does
ResolveAndCheck_raising ==
    /\ pc = "explained"
    /\ LET res == Resolve(unresolved, catalog_nullability, explain_nullability,
                          query_overrides)
           errs == CheckShape(res, result_type)
       IN  /\ resolved' = res
           /\ IF errs = <<>>
                THEN /\ pc' = "returned"
                     /\ UNCHANGED <<errors, raised>>
              ELSE /\ pc' = "raised"
                   /\ raised' = errs[1]
                   /\ UNCHANGED errors
    /\ UNCHANGED <<result_type, stmt_cols, stmt_state, unresolved, origins,
                   query_overrides, catalog_nullability, nullables, explain_nullability,
                   ops, db_fault>>
    /\ UNCHANGED <<walk_vars, validate_vars, render_vars, fetch_vars>>

\* lines 150-168: merge, expectation, check, return
ResolveAndCheck ==
    /\ pc = "explained"
    /\ LET res == Resolve(unresolved, catalog_nullability, explain_nullability,
                          query_overrides)
       IN  /\ resolved' = res
           /\ errors' = CheckShape(res, result_type)
    /\ pc' = "returned"
    /\ UNCHANGED <<result_type, stmt_cols, stmt_state, unresolved, origins,
                   query_overrides, catalog_nullability, nullables, explain_nullability,
                   raised, ops, db_fault>>
    /\ UNCHANGED <<walk_vars, validate_vars, render_vars, fetch_vars>>

Next ==
    \/ Describe
    \/ ReturnNoShape
    \/ CatalogLookups
    \/ ExplainWalk
    \/ ResolveAndCheck

Spec == Init /\ [][Next]_vars

(***************************************************************************)
(* The state machine of the registry: producers are registered, then       *)
(* validate_all walks them                                                 *)
(***************************************************************************)
\* FearOfSQL.query: the decorator appends the producer
Register ==
    /\ val_pc = "idle"
    /\ Len(queries) < MaxQueries
    /\ \E fn \in Producers : queries' = Append(queries, fn)
    /\ UNCHANGED <<val_pc, verbose, cursor, count, log, invoked, collected, val_raised,
                   conn>>
    /\ UNCHANGED <<pipeline_vars, walk_vars, render_vars, fetch_vars>>

\* the finally clause left out
Closed_leaky(c) == c

\* native_conn.close() of the finally clause, for a connection validate_all opened
Closed(c) == IF c.given = "url" THEN Conn("url", "closed") ELSE c

\* validate_all(conn) is called, with or without a verbose keyword: the signature
\* takes conn only, so a call passing verbose fails to bind; a URL is connected to
ValidateAll ==
    /\ val_pc = "idle"
    /\ \E given \in {"url", "connection"}, kw \in {Absent, "True", "False"},
          connect_ok \in BOOLEAN :
        /\ verbose' = kw
        /\ IF kw # Absent
             THEN /\ connect_ok
                  /\ conn' = Conn(given, IF given = "url" THEN "none" ELSE "open")
                  /\ val_raised' =
                        Propagating(TypeError("got an unexpected keyword argument 'verbose'"))
                  /\ val_pc' = "raised"
           ELSE IF given = "url" /\ ~connect_ok
             THEN /\ conn' = Conn(given, "none")
                  /\ val_raised' = Propagating(DatabaseError)
                  /\ val_pc' = "raised"
           ELSE /\ connect_ok
                /\ conn' = Conn(given, "open")
                /\ val_pc' = "validating"
                /\ UNCHANGED val_raised
    /\ UNCHANGED <<queries, cursor, count, log, invoked, collected>>
    /\ UNCHANGED <<pipeline_vars, walk_vars, render_vars, fetch_vars>>

\* the body of `for error in collect_errors(...)` that raises the last error
RaiseFirst_last(errs, fn, sql) ==
    LET error == errs[Len(errs)] IN
    [lines |-> <<ErrLine(fn.name, error, SqlOneline(sql))>>,
     raised |-> SetAttr(SetAttr(Propagating(error), "query_name", fn.name), "sql", sql)]

\* lines 108-117: the body of `for error in collect_errors(...)` for a list that
\* is not empty: the first error is logged, named and raised, which ends the loop
RaiseFirst(errs, fn, sql) ==
    LET error == errs[1] IN
    [lines |-> <<ErrLine(fn.name, error, SqlOneline(sql))>>,
     raised |-> SetAttr(SetAttr(Propagating(error), "query_name", fn.name), "sql", sql)]

\* lines 101-119: one iteration of `for fn in self._queries`
ValidateQuery ==
    /\ val_pc = "validating"
    /\ cursor < Len(queries)
    /\ LET fn == queries[cursor + 1]
           dummy == MakeDummyArgs(fn, Len(fn.params))
           query_obj == fn.returns
           cols == PreparedCols(query_obj.sql)
           out == CollectErrors(cols, ResultTypeOf(query_obj),
                                ScanPlan(Absent, StmtExprs(cols)))
       IN  /\ cursor' = cursor + 1
           /\ IF dummy.raised # NoException
                THEN /\ val_raised' = Propagating(dummy.raised)
                     /\ val_pc' = "raised"
                     /\ conn' = Closed(conn)
                     /\ UNCHANGED <<invoked, collected, log, count>>
              ELSE /\ invoked' = Append(invoked, cursor + 1)
                   /\ collected' = Append(collected, cursor + 1)
                   /\ IF out.raised # NoException
                        THEN /\ val_raised' = Propagating(out.raised)
                             /\ val_pc' = "raised"
                             /\ conn' = Closed(conn)
                             /\ UNCHANGED <<log, count>>
                      ELSE IF out.errors # <<>>
                        THEN LET first == RaiseFirst(out.errors, fn, query_obj.sql) IN
                             /\ log' = log \o first.lines
                             /\ val_raised' = first.raised
                             /\ val_pc' = "raised"
                             /\ conn' = Closed(conn)
                             /\ UNCHANGED count
                      ELSE /\ log' = Append(log, OkLine(fn.name, SqlOneline(query_obj.sql)))
                           /\ count' = count + 1
                           /\ UNCHANGED <<val_raised, val_pc, conn>>
    /\ UNCHANGED <<queries, verbose>>
    /\ UNCHANGED <<pipeline_vars, walk_vars, render_vars, fetch_vars>>

\* a return of the count before the loop has reached the last producer
ValidateReturn_early ==
    /\ val_pc = "validating"
    /\ cursor <= Len(queries)
    /\ val_pc' = "returned"
    /\ conn' = Closed(conn)
    /\ UNCHANGED <<queries, verbose, cursor, count, log, invoked, collected, val_raised>>
    /\ UNCHANGED <<pipeline_vars, walk_vars, render_vars, fetch_vars>>

\* line 120 and the finally clause of validate_all: the loop is over, count returned
ValidateReturn ==
    /\ val_pc = "validating"
    /\ cursor = Len(queries)
    /\ val_pc' = "returned"
    /\ conn' = Closed(conn)
    /\ UNCHANGED <<queries, verbose, cursor, count, log, invoked, collected, val_raised>>
    /\ UNCHANGED <<pipeline_vars, walk_vars, render_vars, fetch_vars>>

NextValidate ==
    \/ Register
    \/ ValidateAll
    \/ ValidateQuery
    \/ ValidateReturn

SpecValidate == Init /\ [][NextValidate]_vars

(***************************************************************************)
(* Join queries over the tables cards and reviews(score int NOT NULL): the *)
(* columns a join query may select, and the plans PostgreSQL may answer: a *)
(* join of two scans at the root, the same join under a node that is no    *)
(* join (Limit, Sort), and the same join as the outer or the inner child   *)
(* of a second join with a third relation.                                 *)
(***************************************************************************)
JoinExprs ==
    { [expr |-> "cards.front", type_oid |-> 25, table_oid |-> CardsOid,
       column_attrnum |-> 2],
      [expr |-> "cards.notes", type_oid |-> 25, table_oid |-> CardsOid,
       column_attrnum |-> 4],
      [expr |-> "reviews.score", type_oid |-> 23, table_oid |-> ReviewsOid,
       column_attrnum |-> 3] }

JoinRawNames == { <<"a">>, <<"a", "!">>, <<"b">> }

JoinColumnInfos ==
    { [name |-> n, expr |-> e.expr, type_oid |-> e.type_oid,
       table_oid |-> e.table_oid, column_attrnum |-> e.column_attrnum] :
        n \in JoinRawNames, e \in JoinExprs }

\* a join query selects at least one column
JoinStmtCols ==
    {SomeCols(l) : l \in {c \in SeqsUpTo(JoinColumnInfos, MaxCols) : Len(c) > 0}}

JoinShapes ==
    { RecordShape(<<[name |-> <<"a">>, type |-> PlainType("str")],
                    [name |-> <<"b">>, type |-> PlainType("int")]>>),
      RecordShape(<<[name |-> <<"a">>, type |-> UnionType(<<"int", NoneType>>)]>>) }

\* the table an output expression reads
TableOfExpr(expr) == (CHOOSE e \in JoinExprs : e.expr = expr).table_oid

\* the expressions of exprs[1..n] that read one of these tables
RECURSIVE Restrict(_, _, _)
Restrict(exprs, tables, n) ==
    IF n = 0 THEN <<>>
    ELSE IF TableOfExpr(exprs[n]) \in tables
      THEN Append(Restrict(exprs, tables, n - 1), exprs[n])
    ELSE Restrict(exprs, tables, n - 1)

TableScan(parent, table, exprs) ==
    RawPlan(Absent, parent, Restrict(exprs, {table}, Len(exprs)), <<>>)

\* the scan of a third relation, of which the query selects no column
OtherScan(parent) == RawPlan(Absent, parent, <<>>, <<>>)

\* a join node over the scans of two tables
JoinOfScans(join_type, parent, outer, inner, exprs) ==
    RawPlan(join_type, parent, Restrict(exprs, {outer, inner}, Len(exprs)),
            <<TableScan("Outer", outer, exprs), TableScan("Inner", inner, exprs)>>)

\* a node that is no join, above a plan
Above(raw_plan) ==
    RawPlan(Absent, Absent, raw_plan.Output,
            <<[raw_plan EXCEPT !.ParentRelationship = "Outer"]>>)

PlanJoinTypes == {"Inner", "Left", "Right", "Full"}

JoinPlansFor(exprs) ==
    LET sides == {<<CardsOid, ReviewsOid>>, <<ReviewsOid, CardsOid>>}
        at_root == {JoinOfScans(jt, Absent, s[1], s[2], exprs) :
                        jt \in PlanJoinTypes, s \in sides}
        as_outer == {RawPlan(top, Absent, exprs,
                             <<JoinOfScans(jt, "Outer", s[1], s[2], exprs),
                               OtherScan("Inner")>>) :
                        top \in PlanJoinTypes, jt \in PlanJoinTypes, s \in sides}
        as_inner == {RawPlan(top, Absent, exprs,
                             <<OtherScan("Outer"),
                               JoinOfScans(jt, "Inner", s[1], s[2], exprs)>>) :
                        top \in PlanJoinTypes, jt \in PlanJoinTypes, s \in sides}
    IN  at_root \cup {Above(p) : p \in at_root} \cup as_outer \cup as_inner

(***************************************************************************)
(* The state machine of collect_errors on a join query, keeping the plan   *)
(***************************************************************************)
\* lines 132-149 of collect_errors on a connection that answers every lookup:
\* describe, the pg_attribute lookups, the EXPLAIN and the walk of its plan
DescribeAndExplain ==
    /\ pc = "idle"
    /\ \E shape \in JoinShapes, cols \in JoinStmtCols :
       \E raw_plan \in JoinPlansFor(StmtExprs(cols)) :
        LET d == DescribeCols(cols)
            nulls == ExplainVector(raw_plan)
        IN  /\ d.raised = NoException
            /\ result_type' = shape
            /\ stmt_cols' = cols
            /\ stmt_state' = "closed"
            /\ unresolved' = d.unresolved
            /\ origins' = d.origins
            /\ query_overrides' = d.overrides
            /\ catalog_nullability' = CollectCatalogNullability(d.origins)
            /\ nullables' = nulls
            /\ explain_nullability' = ExplainOverrides(d.unresolved, nulls, Len(nulls))
            /\ ops' = <<"PREPARE">> \o CatalogOps(d.origins, Len(d.origins))
                      \o <<"PG_PREPARED", "EXPLAIN", "CLOSE">>
            /\ explain_plan' = SomePlan(raw_plan)
            /\ visited' = VisitTrace(ParsePlan(raw_plan), <<>>)
            /\ pc' = "explained"
    /\ UNCHANGED <<resolved, errors, raised, db_fault>>
    /\ UNCHANGED <<validate_vars, render_vars, fetch_vars>>

NextWalk ==
    \/ DescribeAndExplain
    \/ ResolveAndCheck

SpecWalk == Init /\ [][NextWalk]_vars

(***************************************************************************)
(* The state machine of a rendering: a template is rendered, or a Query or *)
(* an Execute is built from it or from a SQL string                        *)
(***************************************************************************)
InitRender ==
    /\ PipelineIdle
    /\ explain_plan = NoPlan
    /\ visited = <<>>
    /\ ValidateIdle
    /\ the_template \in Templates
    /\ built = NotBuilt
    /\ FetchIdle

RenderTemplate ==
    /\ built = NotBuilt
    /\ built' = Built("RenderedQuery", TRUE, Render(the_template))
    /\ UNCHANGED the_template
    /\ UNCHANGED <<pipeline_vars, walk_vars, validate_vars, fetch_vars>>

\* Query(sql, result_type, *args) with a template or with a SQL string
BuildQuery ==
    /\ built = NotBuilt
    /\ \E from_template \in BOOLEAN, text \in Literals, args \in SeqsUpTo(Values, 1),
          shape \in {ScalarShape(PlainType("str"))} :
        built' = Built("Query", from_template,
                       Query_init(IF from_template THEN TemplateSql(the_template)
                                  ELSE StrSql(text), shape, args))
    /\ UNCHANGED the_template
    /\ UNCHANGED <<pipeline_vars, walk_vars, validate_vars, fetch_vars>>

\* Execute(sql, *args) with a template or with a SQL string
BuildExecute ==
    /\ built = NotBuilt
    /\ \E from_template \in BOOLEAN, text \in Literals, args \in SeqsUpTo(Values, 1) :
        built' = Built("Execute", from_template,
                       Execute_init(IF from_template THEN TemplateSql(the_template)
                                    ELSE StrSql(text), args))
    /\ UNCHANGED the_template
    /\ UNCHANGED <<pipeline_vars, walk_vars, validate_vars, fetch_vars>>

NextRender ==
    \/ RenderTemplate
    \/ BuildQuery
    \/ BuildExecute

SpecRender == InitRender /\ [][NextRender]_vars

(***************************************************************************)
(* Fetching: the database answer and the result type are the inputs        *)
(***************************************************************************)
InitFetch ==
    /\ PipelineIdle
    /\ explain_plan = NoPlan
    /\ visited = <<>>
    /\ ValidateIdle
    /\ RenderIdle
    /\ fetch_answer \in {a \in Answers : WellFormed(a)}
    /\ fetch_type \in ResultTypes
    /\ fetched = NotFetched

FetchSql == <<"SELECT", " ", "a", " ">>

\* fetch_one / fetch_one_sync, on a Query or through a client
FetchOne ==
    /\ fetched = NotFetched
    /\ \E call \in Calls :
        LET query == Query_init(StrSql(FetchSql), fetch_type, <<>>) IN
        fetched' = Fetched("fetch_one", call,
            CASE call.executor = "dbapi" /\ call.via = "Query" ->
                    Query_fetch_one_sync(query, fetch_answer)
              [] call.executor = "dbapi" /\ call.via = "client" ->
                    SyncClient_fetch_one(FetchSql, fetch_type, <<>>, fetch_answer)
              [] call.executor # "dbapi" /\ call.via = "Query" ->
                    Query_fetch_one(query, call.executor, fetch_answer)
              [] OTHER ->
                    AsyncClient_fetch_one(FetchSql, fetch_type, <<>>, call.executor,
                                          fetch_answer))
    /\ UNCHANGED <<fetch_answer, fetch_type>>
    /\ UNCHANGED <<pipeline_vars, walk_vars, validate_vars, render_vars>>

\* fetch_optional / fetch_optional_sync, on a Query or through a client
FetchOptional ==
    /\ fetched = NotFetched
    /\ \E call \in Calls :
        LET query == Query_init(StrSql(FetchSql), fetch_type, <<>>) IN
        fetched' = Fetched("fetch_optional", call,
            CASE call.executor = "dbapi" /\ call.via = "Query" ->
                    Query_fetch_optional_sync(query, fetch_answer)
              [] call.executor = "dbapi" /\ call.via = "client" ->
                    SyncClient_fetch_optional(FetchSql, fetch_type, <<>>, fetch_answer)
              [] call.executor # "dbapi" /\ call.via = "Query" ->
                    Query_fetch_optional(query, call.executor, fetch_answer)
              [] OTHER ->
                    AsyncClient_fetch_optional(FetchSql, fetch_type, <<>>, call.executor,
                                               fetch_answer))
    /\ UNCHANGED <<fetch_answer, fetch_type>>
    /\ UNCHANGED <<pipeline_vars, walk_vars, validate_vars, render_vars>>

\* fetch_all / fetch_all_sync, on a Query or through a client
FetchAll ==
    /\ fetched = NotFetched
    /\ \E call \in Calls :
        LET query == Query_init(StrSql(FetchSql), fetch_type, <<>>) IN
        fetched' = Fetched("fetch_all", call,
            CASE call.executor = "dbapi" /\ call.via = "Query" ->
                    Query_fetch_all_sync(query, fetch_answer)
              [] call.executor = "dbapi" /\ call.via = "client" ->
                    SyncClient_fetch_all(FetchSql, fetch_type, <<>>, fetch_answer)
              [] call.executor # "dbapi" /\ call.via = "Query" ->
                    Query_fetch_all(query, call.executor, fetch_answer)
              [] OTHER ->
                    AsyncClient_fetch_all(FetchSql, fetch_type, <<>>, call.executor,
                                          fetch_answer))
    /\ UNCHANGED <<fetch_answer, fetch_type>>
    /\ UNCHANGED <<pipeline_vars, walk_vars, validate_vars, render_vars>>

NextFetch ==
    \/ FetchOne
    \/ FetchOptional
    \/ FetchAll

SpecFetch == InitFetch /\ [][NextFetch]_vars

(***************************************************************************)
(* describe on its own, over raw names that end in no, one or two suffix   *)
(* characters                                                              *)
(***************************************************************************)
SuffixedNames ==
    { <<"a">>, <<"a", "!">>, <<"a", "?">>, <<"a", "!", "?">>, <<"a", "?", "!">>,
      <<"a", "!", "!">>, <<"!">> }

SuffixedColumnInfos ==
    { [name |-> n, expr |-> e.expr, type_oid |-> e.type_oid,
       table_oid |-> e.table_oid, column_attrnum |-> e.column_attrnum] :
        n \in SuffixedNames, e \in SelectExprs }

SuffixedStmtCols ==
    {NoCols} \cup {SomeCols(l) : l \in SeqsUpTo(SuffixedColumnInfos, MaxCols)}

\* describe(conn, sql): conn.prepare, then the loop over the columns
DescribeStatement ==
    /\ pc = "idle"
    /\ \E cols \in SuffixedStmtCols, prepare_ok \in BOOLEAN :
        /\ ops' = Append(ops, "PREPARE")
        /\ db_fault' = (IF prepare_ok THEN Absent ELSE "prepare_db_error")
        /\ IF ~prepare_ok
             THEN /\ cols = NoCols
                  /\ raised' = DatabaseError
                  /\ pc' = "raised"
                  /\ UNCHANGED <<stmt_cols, stmt_state, unresolved, origins, query_overrides>>
           ELSE LET d == DescribeCols(cols) IN
                  /\ stmt_cols' = cols
                  /\ stmt_state' = "open"
                  /\ raised' = d.raised
                  /\ pc' = IF d.raised # NoException THEN "raised" ELSE "described"
                  /\ IF d.raised # NoException
                       THEN UNCHANGED <<unresolved, origins, query_overrides>>
                     ELSE /\ unresolved' = d.unresolved
                          /\ origins' = d.origins
                          /\ query_overrides' = d.overrides
    /\ UNCHANGED <<result_type, catalog_nullability, nullables, explain_nullability,
                   resolved, errors>>
    /\ UNCHANGED <<walk_vars, validate_vars, render_vars, fetch_vars>>

NextDescribe == DescribeStatement

SpecDescribe == Init /\ [][NextDescribe]_vars

(***************************************************************************)
(* Vocabulary of the properties                                            *)
(***************************************************************************)
\* the number of result columns of the prepared statement
ColumnCount == IF stmt_cols.is_none THEN 0 ELSE Len(stmt_cols.list)

Returned == pc = "returned"
Raised == pc = "raised"

\* the annotation the raw alias of result column i ends in: "!", "?" or "" for none
Annotation(i) ==
    LET raw == stmt_cols.list[i].name
    IN  IF Len(raw) = 0 THEN ""
        ELSE IF raw[Len(raw)] \in {"!", "?"} THEN raw[Len(raw)] ELSE ""

\* the alias of result column i without its annotation
DisplayName(i) ==
    LET raw == stmt_cols.list[i].name
    IN  IF Annotation(i) = "" THEN raw ELSE [k \in 1..(Len(raw) - 1) |-> raw[k]]

\* the nullability the precedence rule gives result column i from its own sources
OwnNullability(i) ==
    IF Annotation(i) = "!" THEN FALSE
    ELSE IF Annotation(i) = "?" THEN TRUE
    ELSE IF nullables[i] THEN TRUE
    ELSE catalog_nullability[i].nullable

\* a shape was given and the merge has run
Merged == Returned /\ result_type # NoShape

(***************************************************************************)
(* C1: every result column resolves to the nullability the precedence      *)
(* rule gives for its own sources: its annotation if it has one, else      *)
(* nullable if the explain walk marked it, else its catalog base value.    *)
(***************************************************************************)
C1_PrecedencePerColumn ==
    Merged =>
        /\ Len(resolved) = ColumnCount
        /\ \A i \in 1..ColumnCount : resolved[i].nullable = OwnNullability(i)

(***************************************************************************)
(* C2: once the PREPARE has succeeded, the statement is closed when        *)
(* collect_errors exits, by return or by exception.                        *)
(***************************************************************************)
C2_StatementClosedOnExit ==
    ((Returned \/ Raised) /\ stmt_state # "none") => stmt_state = "closed"

(***************************************************************************)
(* Vocabulary of the checker properties                                    *)
(***************************************************************************)
IsScalar == result_type.kind = "scalar"
IsRecord == result_type.kind = "record"

FieldCount == Len(result_type.fields)
FieldName(j) == result_type.fields[j].name
FieldAllowed(j) == result_type.fields[j].type.args

\* the resolved column has this name
HasColumn(name) == \E i \in 1..Len(resolved) : resolved[i].name = name

\* the column a name is matched to: the first of that name
MatchedColumn(name) ==
    resolved[CHOOSE i \in 1..Len(resolved) :
                 resolved[i].name = name /\ \A k \in 1..(i - 1) : resolved[k].name # name]

IsIn(x, list) == \E k \in 1..Len(list) : list[k] = x

TypeFails(col, allowed) == ~IsIn(col.mapped_type, allowed)
NullFails(col, allowed) == col.nullable /\ ~IsIn("NoneType", allowed)

TypeMismatchOf(col, allowed) ==
    [kind |-> "TypeMismatchError", column |-> col.name, expected |-> allowed,
     actual |-> col.mapped_type]

NullabilityOf(col) == [kind |-> "NullabilityError", column |-> col.name]

\* the per-column check: type mismatch, then nullability
PerColumnErrors(col, allowed) ==
    (IF TypeFails(col, allowed) THEN <<TypeMismatchOf(col, allowed)>> ELSE <<>>)
    \o (IF NullFails(col, allowed) THEN <<NullabilityOf(col)>> ELSE <<>>)

\* the errors of the returned list that name this column
ErrorsAbout(name) ==
    SelectSeq(errors, LAMBDA e : e.kind # "ColumnCountMismatchError" /\ e.column = name)

\* the position of the field an error of a record check is about
FieldIndexOf(e) == CHOOSE j \in 1..FieldCount : FieldName(j) = e.column

(***************************************************************************)
(* C3: a scalar shape against N result columns, N # 1, returns exactly     *)
(* ColumnCountMismatch{expected 1, actual N}; against one column it        *)
(* returns the per-column check of that column.                            *)
(***************************************************************************)
C3_ScalarColumnCount ==
    (Returned /\ IsScalar) =>
        IF ColumnCount # 1
          THEN errors = << [kind |-> "ColumnCountMismatchError", expected |-> 1,
                            actual |-> ColumnCount] >>
        ELSE errors = PerColumnErrors(resolved[1], result_type.type.args)

\* two columns, the first of a wrong type and nullable: only the count error
C3_Witness ==
    /\ Returned /\ IsScalar
    /\ ColumnCount = 2
    /\ TypeFails(resolved[1], result_type.type.args)
    /\ NullFails(resolved[1], result_type.type.args)
    /\ Len(errors) = 1

(***************************************************************************)
(* C4: a declared field that no resolved column is named after yields      *)
(* exactly one ColumnNotFound and nothing else about it; a field that is   *)
(* found yields no ColumnNotFound; a strict superset of field names yields *)
(* at least one ColumnNotFound.                                            *)
(***************************************************************************)
C4_MissingFieldNotFound ==
    (Returned /\ IsRecord) =>
        /\ \A j \in 1..FieldCount :
              IF HasColumn(FieldName(j))
                THEN \A k \in 1..Len(ErrorsAbout(FieldName(j))) :
                        ErrorsAbout(FieldName(j))[k].kind # "ColumnNotFoundError"
              ELSE ErrorsAbout(FieldName(j)) =
                      << [kind |-> "ColumnNotFoundError", column |-> FieldName(j)] >>
        /\ ( /\ \A i \in 1..Len(resolved) : \E j \in 1..FieldCount :
                    FieldName(j) = resolved[i].name
             /\ \E j \in 1..FieldCount : ~HasColumn(FieldName(j)) )
           => \E k \in 1..Len(errors) : errors[k].kind = "ColumnNotFoundError"

\* one field found and failing its check, a later one missing
C4_Witness ==
    /\ Returned /\ IsRecord
    /\ FieldCount = 2
    /\ HasColumn(FieldName(1)) /\ ~HasColumn(FieldName(2))
    /\ Len(ErrorsAbout(FieldName(1))) > 0
    /\ Len(ErrorsAbout(FieldName(2))) = 1

(***************************************************************************)
(* C5: resolved columns that are no field of a record shape produce no     *)
(* error: the list is the one the check gives without them, and every      *)
(* error is about a declared field.                                        *)
(***************************************************************************)
IsField(name) == \E j \in 1..FieldCount : FieldName(j) = name

WithoutExtras == SelectSeq(resolved, LAMBDA c : IsField(c.name))

C5_ExtraColumnsIgnored ==
    (Returned /\ IsRecord) =>
        /\ errors = CheckShape(WithoutExtras, result_type)
        /\ \A k \in 1..Len(errors) :
              /\ errors[k].kind # "ColumnCountMismatchError"
              /\ IsField(errors[k].column)

\* an extra column that is nullable, beside a field that passes
C5_Witness ==
    /\ Returned /\ IsRecord
    /\ FieldCount = 1
    /\ Len(resolved) = 2
    /\ Len(WithoutExtras) = 1
    /\ \E i \in 1..2 : ~IsField(resolved[i].name) /\ resolved[i].nullable
    /\ errors = <<>>

(***************************************************************************)
(* C6: TypeMismatch is emitted iff the mapped type is not allowed, and     *)
(* NullabilityError iff the column is nullable and the null marker is not  *)
(* allowed; the two tests are independent.                                 *)
(***************************************************************************)
CheckedAsClaimed(col, allowed) ==
    /\ IsIn(TypeMismatchOf(col, allowed), errors) <=> TypeFails(col, allowed)
    /\ IsIn(NullabilityOf(col), errors) <=> NullFails(col, allowed)
    /\ ErrorsAbout(col.name) = PerColumnErrors(col, allowed)

C6_CheckColumnTests ==
    /\ (Returned /\ IsScalar /\ ColumnCount = 1) =>
          CheckedAsClaimed(resolved[1], result_type.type.args)
    /\ (Returned /\ IsRecord) =>
          \A j \in 1..FieldCount :
              HasColumn(FieldName(j)) =>
                  CheckedAsClaimed(MatchedColumn(FieldName(j)), FieldAllowed(j))

\* a column failing both tests yields both errors
C6_Witness ==
    /\ Returned /\ IsScalar /\ ColumnCount = 1
    /\ TypeFails(resolved[1], result_type.type.args)
    /\ NullFails(resolved[1], result_type.type.args)
    /\ Len(errors) = 2

(***************************************************************************)
(* C7: the errors of a record check follow the declaration order of the    *)
(* fields, a TypeMismatch before the NullabilityError of the same field,   *)
(* and every failing field is reported, also after an earlier failure.     *)
(***************************************************************************)
FieldFails(j) ==
    \/ ~HasColumn(FieldName(j))
    \/ TypeFails(MatchedColumn(FieldName(j)), FieldAllowed(j))
    \/ NullFails(MatchedColumn(FieldName(j)), FieldAllowed(j))

C7_ErrorsInFieldOrder ==
    (Returned /\ IsRecord) =>
        /\ \A p, q \in 1..Len(errors) :
              p < q =>
                  /\ FieldIndexOf(errors[p]) <= FieldIndexOf(errors[q])
                  /\ FieldIndexOf(errors[p]) = FieldIndexOf(errors[q]) =>
                        /\ errors[p].kind = "TypeMismatchError"
                        /\ errors[q].kind = "NullabilityError"
        /\ \A j \in 1..FieldCount :
              FieldFails(j) <=> Len(ErrorsAbout(FieldName(j))) > 0

\* two failing fields whose columns come in the opposite order in the result
C7_Witness ==
    /\ Returned /\ IsRecord
    /\ FieldCount = 2 /\ Len(resolved) = 2
    /\ resolved[1].name = FieldName(2) /\ resolved[2].name = FieldName(1)
    /\ FieldFails(1) /\ FieldFails(2)
    /\ errors[1].column = FieldName(1)
    /\ errors[Len(errors)].column = FieldName(2)
    /\ Len(errors) >= 3

(***************************************************************************)
(* C8: without a shape, once describe has succeeded, collect_errors        *)
(* returns [] and the connection has seen the PREPARE and the CLOSE only:  *)
(* no pg_attribute lookup, no pg_prepared_statements lookup, no EXPLAIN.   *)
(***************************************************************************)
C8_NoShapeOnlyPrepareAndClose ==
    (pc # "idle" /\ result_type = NoShape) =>
        /\ \A k \in 1..Len(ops) : ops[k] \in {"PREPARE", "CLOSE"}
        /\ Returned => (errors = <<>> /\ ops = <<"PREPARE", "CLOSE">>)

\* a statement with a column of the fixture table, validated without a shape
C8_Witness ==
    /\ Returned /\ result_type = NoShape
    /\ \E i \in 1..ColumnCount : stmt_cols.list[i].table_oid # 0
    /\ ops = <<"PREPARE", "CLOSE">>

(***************************************************************************)
(* C9: a result column whose type OID is not in the Type Catalog makes     *)
(* collect_errors raise UnsupportedType with the OID and the stripped name *)
(* of the first such column; no error list is returned, whatever the shape.*)
(***************************************************************************)
UnsupportedAt(i) == stmt_cols.list[i].type_oid \notin DOMAIN PG_TYPES

FirstUnsupported ==
    CHOOSE i \in 1..ColumnCount : UnsupportedAt(i) /\ \A k \in 1..(i - 1) : ~UnsupportedAt(k)

C9_UnsupportedTypeRaises ==
    (stmt_state # "none" /\ \E i \in 1..ColumnCount : UnsupportedAt(i)) =>
        /\ Raised
        /\ raised = [kind |-> "UnsupportedTypeError",
                     type_oid |-> stmt_cols.list[FirstUnsupported].type_oid,
                     column |-> DisplayName(FirstUnsupported)]
        /\ errors = <<>>

\* the unsupported column comes second and is annotated, the shape is a record
C9_Witness ==
    /\ Raised /\ IsRecord
    /\ ColumnCount = 2
    /\ ~UnsupportedAt(1) /\ UnsupportedAt(2)
    /\ Annotation(2) = "!"
    /\ raised.kind = "UnsupportedTypeError"

(***************************************************************************)
(* C10: the four validation errors are only ever elements of the returned  *)
(* list and never raised; UnsupportedType, database errors and internal    *)
(* errors (RuntimeError, and the ValueError of unpacking an empty answer)  *)
(* are only ever raised and never in the list.                             *)
(***************************************************************************)
C10_TaxonomiesDisjoint ==
    /\ Raised =>
          /\ raised.kind \in {"UnsupportedTypeError", "DatabaseError", "RuntimeError",
                             "ValueError"}
          /\ errors = <<>>
    /\ ~Raised => raised = [kind |-> "none"]
    /\ \A k \in 1..Len(errors) :
          errors[k].kind \in {"ColumnCountMismatchError", "ColumnNotFoundError",
                              "TypeMismatchError", "NullabilityError"}

\* a returned list holding three of the kinds
C10_Witness ==
    /\ Returned
    /\ \E k \in 1..Len(errors) : errors[k].kind = "ColumnNotFoundError"
    /\ \E k \in 1..Len(errors) : errors[k].kind = "TypeMismatchError"
    /\ \E k \in 1..Len(errors) : errors[k].kind = "NullabilityError"

(***************************************************************************)
(* Vocabulary of the registry properties                                   *)
(***************************************************************************)
ValReturned == val_pc = "returned"
ValRaised == val_pc = "raised"

\* the producer whose iteration of the loop was entered last
CurrentFn == queries[cursor]

\* every parameter is annotated with a type that has a dummy value, itself or
\* through its origin
HasDummy(annotation) ==
    /\ annotation.type # "empty"
    /\ \/ annotation.type \in DOMAIN DUMMY_VALUES
       \/ annotation.has_origin /\ annotation.origin \in DOMAIN DUMMY_VALUES

Dummyable(fn) == \A k \in 1..Len(fn.params) : HasDummy(fn.params[k].annotation)

\* what collect_errors answers for the query of a producer
OutcomeOf(fn) ==
    LET cols == PreparedCols(fn.returns.sql)
    IN  CollectErrors(cols, ResultTypeOf(fn.returns), ScanPlan(Absent, StmtExprs(cols)))

ErrorListOf(fn) == OutcomeOf(fn).errors

\* the loop stopped at a producer whose query has validation errors
FailedValidation ==
    /\ ValRaised
    /\ cursor >= 1
    /\ Dummyable(CurrentFn)
    /\ OutcomeOf(CurrentFn).raised = NoException
    /\ ErrorListOf(CurrentFn) # <<>>

HasAttr(attr, value) ==
    attr \in DOMAIN val_raised.attrs /\ val_raised.attrs[attr] = value

\* the lines of the log that report an error
ErrLines == SelectSeq(log, LAMBDA line : line[1] = "ERR:")

(***************************************************************************)
(* C11: when a registered query fails validation, validate_all raises the  *)
(* first error of the error list of that query, with query_name set to the *)
(* name of the producing function and sql to the SQL string of the query.  *)
(***************************************************************************)
C11_RaisesFirstErrorNamed ==
    FailedValidation =>
        /\ val_raised.exc = ErrorListOf(CurrentFn)[1]
        /\ HasAttr("query_name", CurrentFn.name)
        /\ HasAttr("sql", CurrentFn.returns.sql)

\* the second registered producer fails with two errors, after a first that passed
C11_Witness ==
    /\ FailedValidation
    /\ cursor = 2
    /\ count = 1
    /\ Len(ErrorListOf(CurrentFn)) = 2
    /\ val_raised.exc.kind = "TypeMismatchError"

(***************************************************************************)
(* C12: an UnsupportedTypeError that validate_all propagates for a         *)
(* registered query carries the name of the producing function and the SQL *)
(* of the query, as every error kind does.                                 *)
(***************************************************************************)
C12_UnsupportedTypeNamed ==
    (ValRaised /\ val_raised.exc.kind = "UnsupportedTypeError") =>
        /\ HasAttr("query_name", CurrentFn.name)
        /\ HasAttr("sql", CurrentFn.returns.sql)

(***************************************************************************)
(* C13: when a query yields validation errors, validate_all logs every one *)
(* of them before it raises the first: the ERR lines of the log are as     *)
(* many as the errors of the list.                                         *)
(***************************************************************************)
C13_EveryErrorLogged ==
    FailedValidation => Len(ErrLines) = Len(ErrorListOf(CurrentFn))

(***************************************************************************)
(* C14: validate_all accepts a verbose flag, and a call with verbose on    *)
(* writes one line per validated query: an ok line with the name and the   *)
(* one-line SQL for a query that passes, an ERR line with the name, the    *)
(* error and the one-line SQL for the query that fails.                    *)
(***************************************************************************)
C14_VerboseLinePerQuery ==
    (verbose = "True" /\ val_pc # "idle") =>
        /\ val_raised.exc.kind # "TypeError" \/ cursor >= 1
        /\ ValReturned =>
              /\ Len(log) = Len(queries)
              /\ \A i \in 1..Len(queries) :
                    log[i] = <<"ok:", queries[i].name, SqlOneline(queries[i].returns.sql)>>
        /\ FailedValidation =>
              /\ Len(log) = cursor
              /\ log[cursor] = <<"ERR:", CurrentFn.name, val_raised.exc,
                                 SqlOneline(CurrentFn.returns.sql)>>

(***************************************************************************)
(* C16: validate_all fails with a TypeError for a producer that has a      *)
(* parameter without annotation, or with an annotation that has no dummy   *)
(* value even through its origin; the TypeError is raised before the       *)
(* producer is invoked and before its query reaches the database.          *)
(***************************************************************************)
C16_TypeErrorBeforeInvocation ==
    \A i \in 1..cursor :
        ~Dummyable(queries[i]) =>
            /\ ValRaised
            /\ i = cursor
            /\ val_raised.exc.kind = "TypeError"
            /\ ~InList(i, invoked)
            /\ ~InList(i, collected)

\* the second producer has a generic parameter whose origin has no dummy value;
\* the first was invoked and validated
C16_Witness ==
    /\ ValRaised
    /\ cursor = 2
    /\ CurrentFn.name = "no_dummy_origin"
    /\ val_raised.exc = TypeError("no dummy value for type")
    /\ invoked = <<1>>
    /\ collected = <<1>>

(***************************************************************************)
(* Vocabulary of the rendering properties                                  *)
(***************************************************************************)
\* the placeholders $1, $2, ... as they are written
WrittenPlaceholders == <<"$1", "$2", "$3", "$4">>

\* strings[1] $1 strings[2] $2 ... over strings[1..n], for k interpolations
RECURSIVE Interleaved(_, _, _)
Interleaved(strings, k, n) ==
    IF n = 0 THEN <<>>
    ELSE Interleaved(strings, k, n - 1) \o strings[n]
         \o (IF n <= k THEN <<WrittenPlaceholders[n]>> ELSE <<>>)

BuiltFromTemplate == built.kind # "none" /\ built.from_template

BuiltParams ==
    IF built.kind = "RenderedQuery" THEN built.obj.params ELSE built.obj.args

(***************************************************************************)
(* C15: for a template with K interpolations, render returns the literal   *)
(* strings with the placeholders $1..$K between them in order, and the     *)
(* tuple of the K interpolated values in order; the SQL text is made of    *)
(* the literal strings and placeholders alone, so no value is written into *)
(* it; a Query and an Execute built from the template expose this sql and  *)
(* these args.                                                             *)
(***************************************************************************)
C15_RenderPlaceholders ==
    BuiltFromTemplate =>
        LET k == Len(the_template.interpolations) IN
        /\ built.obj.sql =
              Interleaved(the_template.strings, k, Len(the_template.strings))
        /\ Len(BuiltParams) = k
        /\ \A i \in 1..k : BuiltParams[i] = the_template.interpolations[i].value

\* an Execute built from a template with two interpolations of different values
C15_Witness ==
    /\ BuiltFromTemplate
    /\ built.kind = "Execute"
    /\ Len(the_template.interpolations) = 2
    /\ the_template.interpolations[1].value.text = "hi"
    /\ the_template.interpolations[2].value.text = "1"
    /\ built.obj.sql[Len(the_template.strings[1]) + 1] = "$1"

(***************************************************************************)
(* Vocabulary of the join properties                                       *)
(***************************************************************************)
\* the merge has run on a statement whose plan was kept
WalkMerged == Merged /\ ~explain_plan.is_none

RECURSIVE NodesOf(_)
NodesOf(node) ==
    {node} \cup UNION {NodesOf(node.Plans[k]) : k \in 1..Len(node.Plans)}

\* the nodes of the plan with this join type
JoinNodes(join_type) == {n \in NodesOf(explain_plan.plan) : n.JoinType = join_type}

\* the child of a join node on this side
ChildOn(node, side) ==
    node.Plans[CHOOSE k \in 1..Len(node.Plans) : node.Plans[k].ParentRelationship = side]

\* result column i is computed from the output of this node
ComesFrom(i, node) == InList(stmt_cols.list[i].expr, node.Output)

\* the children whose rows a join node extends with nulls: PostgreSQL keeps
\* every row of the outer child in a Left join, of the inner child in a Right
\* join, of both in a Full join, and extends the other side
NullExtended(node) ==
    CASE node.JoinType = "Left" -> {ChildOn(node, "Inner")}
      [] node.JoinType = "Right" -> {ChildOn(node, "Outer")}
      [] node.JoinType = "Full" -> {ChildOn(node, "Outer"), ChildOn(node, "Inner")}
      [] OTHER -> {}

\* result column i is on the null-extended side of some join of the plan
NullableByPlan(i) ==
    \E n \in NodesOf(explain_plan.plan) : \E c \in NullExtended(n) : ComesFrom(i, c)

\* result column i resolves to what pg_attribute says of it
KeepsBase(i) == resolved[i].nullable = catalog_nullability[i].nullable

\* the errors of this kind about this column name
CountErrors(kind, name) ==
    Cardinality({k \in 1..Len(errors) : errors[k].kind = kind /\ errors[k].column = name})

\* result column i is the one a field of the declared record is matched to, and
\* the field is declared without None
DeclaredNonNull(i) ==
    /\ IsRecord
    /\ \E j \in 1..FieldCount :
          /\ FieldName(j) = resolved[i].name
          /\ MatchedColumn(FieldName(j)) = resolved[i]
          /\ \A k \in 1..(i - 1) : resolved[k].name # resolved[i].name
          /\ ~IsIn(NoneType, FieldAllowed(j))

(***************************************************************************)
(* C17: for a plan that contains a Left join, wherever the join node sits  *)
(* in the tree, every result column from the inner side of the join        *)
(* resolves nullable unless it is annotated `!`, and every result column   *)
(* from the outer side keeps its catalog nullability.                      *)
(***************************************************************************)
C17_LeftJoinAnywhere ==
    WalkMerged =>
        \A n \in JoinNodes("Left") : \A i \in 1..ColumnCount :
            /\ (ComesFrom(i, ChildOn(n, "Inner")) /\ Annotation(i) # "!")
                  => resolved[i].nullable
            /\ (ComesFrom(i, ChildOn(n, "Outer")) /\ Annotation(i) = ""
                  /\ ~NullableByPlan(i)) => KeepsBase(i)

(***************************************************************************)
(* C18: for a plan that contains a Full join, every result column from     *)
(* either side of the join resolves nullable unless it is annotated `!`,   *)
(* and a record shape that declares such a column without None gets one    *)
(* NullabilityError for it.                                                *)
(***************************************************************************)
C18_FullJoinBothSides ==
    WalkMerged =>
        \A n \in JoinNodes("Full") : \A i \in 1..ColumnCount :
            (ComesFrom(i, n) /\ Annotation(i) # "!") =>
                /\ resolved[i].nullable
                /\ DeclaredNonNull(i) =>
                      CountErrors("NullabilityError", resolved[i].name) = 1

(***************************************************************************)
(* C19: below a join node of type Right, the columns marked nullable are   *)
(* those of the child on the side the join does not preserve: they resolve *)
(* nullable unless annotated `!`, and the columns of the preserved side    *)
(* keep their catalog nullability.                                         *)
(***************************************************************************)
C19_RightJoinNonPreservedSide ==
    WalkMerged =>
        \A n \in JoinNodes("Right") : \A i \in 1..ColumnCount :
            /\ (ComesFrom(i, ChildOn(n, "Outer")) /\ Annotation(i) # "!")
                  => resolved[i].nullable
            /\ (ComesFrom(i, ChildOn(n, "Inner")) /\ Annotation(i) = ""
                  /\ ~NullableByPlan(i)) => KeepsBase(i)
            /\ n = explain_plan.plan =>
                  (nullables[i] => ComesFrom(i, ChildOn(n, "Outer")))

\* the walk of a plan without Left, Right or Full join returns no override
NoOuterJoin == JoinNodes("Left") \cup JoinNodes("Right") \cup JoinNodes("Full") = {}

(***************************************************************************)
(* C20: for a plan without a Left, Right or Full join node the explain     *)
(* walk returns no override, so every result column that is not annotated  *)
(* resolves to its catalog nullability.                                    *)
(***************************************************************************)
C20_InnerJoinKeepsBase ==
    (~explain_plan.is_none /\ NoOuterJoin) =>
        /\ explain_nullability = <<>>
        /\ Merged => \A i \in 1..ColumnCount : Annotation(i) = "" => KeepsBase(i)

(***************************************************************************)
(* Vocabulary of the catalog properties                                    *)
(***************************************************************************)
\* the pg_attribute lookups have all answered
Catalogued == pc \in {"catalogued", "explained"} \/ Merged

\* result column i is a computed expression: it has no table origin
Computed(i) == stmt_cols.list[i].table_oid = 0

\* what pg_attribute says of the origin of result column i
AttNotNull(i) ==
    PgAttribute[<<stmt_cols.list[i].table_oid, stmt_cols.list[i].column_attrnum>>]

\* the declared shape asks result column i to be non-null
AsksNonNull(i) ==
    \/ IsScalar /\ ColumnCount = 1 /\ ~IsIn(NoneType, UnwrapTypes(result_type.type))
    \/ DeclaredNonNull(i)

(***************************************************************************)
(* C21: collect_catalog_nullability returns one entry per column origin in *)
(* result order, nullable when table_oid = 0 and the negation of           *)
(* attnotnull otherwise; so a computed expression without annotation       *)
(* resolves nullable and gets a NullabilityError under a declared non-null *)
(* type, and resolves non-null when annotated `!`.                         *)
(***************************************************************************)
C21_CatalogPerOrigin ==
    /\ Catalogued =>
          /\ Len(catalog_nullability) = ColumnCount
          /\ \A i \in 1..ColumnCount :
                /\ catalog_nullability[i].name = origins[i].name
                /\ catalog_nullability[i].nullable =
                      (IF Computed(i) THEN TRUE ELSE ~AttNotNull(i))
    /\ Merged =>
          \A i \in 1..ColumnCount :
              Computed(i) =>
                  /\ Annotation(i) = "" =>
                        /\ resolved[i].nullable
                        /\ AsksNonNull(i) =>
                              CountErrors("NullabilityError", resolved[i].name) >= 1
                  /\ Annotation(i) = "!" => ~resolved[i].nullable

(***************************************************************************)
(* Vocabulary of the fatal errors                                          *)
(***************************************************************************)
\* the database had no pg_attribute row, no pg_prepared_statements row, or no
\* row of EXPLAIN to answer
MissingAnswers ==
    {"pg_attribute_no_row", "prepared_no_row", "prepared_empty", "explain_no_rows",
     "explain_empty"}

Sent(op) == InList(op, ops)

(***************************************************************************)
(* C22: a missing pg_attribute row, a missing pg_prepared_statements row   *)
(* or an EXPLAIN without rows makes collect_errors raise: no error list is *)
(* returned, no nullability is substituted for what is missing, and the    *)
(* stages after the failed one are not run.                                *)
(***************************************************************************)
C22_MissingAnswerIsFatal ==
    db_fault \in MissingAnswers =>
        /\ Raised
        /\ raised.kind \in {"RuntimeError", "ValueError"}
        /\ errors = <<>>
        /\ resolved = <<>>
        /\ nullables = <<>>
        /\ explain_nullability = <<>>
        /\ db_fault = "pg_attribute_no_row" =>
              catalog_nullability = <<>> /\ ~Sent("PG_PREPARED") /\ ~Sent("EXPLAIN")
        /\ db_fault \in {"prepared_no_row", "prepared_empty"} => ~Sent("EXPLAIN")

\* the row of the second origin is missing, after the lookup of the first answered
C22_Witness ==
    /\ db_fault = "pg_attribute_no_row"
    /\ Raised
    /\ ColumnCount = 2
    /\ ops = <<"PREPARE", "PG_ATTRIBUTE", "PG_ATTRIBUTE", "CLOSE">>

(***************************************************************************)
(* Vocabulary of the wire traffic                                          *)
(***************************************************************************)
Repeat(op, n) == [i \in 1..n |-> op]

\* the call has passed the finally clause of collect_errors without an exception
PastClose == pc = "explained" \/ Merged

\* the origins that name a column of a table
TableOrigins == {i \in 1..Len(origins) : origins[i].table_oid # 0}

WireSequence(lookups) ==
    <<"PREPARE">> \o Repeat("PG_ATTRIBUTE", lookups)
                  \o <<"PG_PREPARED", "EXPLAIN", "CLOSE">>

\* every operation is sent while the statement is prepared, CLOSE last
ClosedLast ==
    \A i \in 1..Len(ops) : ops[i] = "CLOSE" => i = Len(ops) /\ stmt_state = "closed"

(***************************************************************************)
(* C23 as stated: a call with a shape that meets no fatal error sends one  *)
(* PREPARE, one pg_attribute lookup per column origin, one                 *)
(* pg_prepared_statements lookup, one EXPLAIN and one CLOSE, in this       *)
(* order, the CLOSE before the merge and the check and nothing after it.   *)
(***************************************************************************)
C23_LookupPerOrigin ==
    PastClose => ops = WireSequence(Len(origins))

(***************************************************************************)
(* C23, amended: a call with a shape that meets no fatal error sends one   *)
(* PREPARE, one pg_attribute lookup per column origin whose table_oid is   *)
(* not 0, one pg_prepared_statements lookup, one EXPLAIN and one CLOSE, in *)
(* this order; the sequence is complete before the merge and the check,    *)
(* and the merge and the check send nothing.                               *)
(***************************************************************************)
C23_LookupPerTableOrigin ==
    /\ PastClose => ops = WireSequence(Cardinality(TableOrigins))
    /\ ClosedLast
    /\ Merged => stmt_state = "closed"

\* a checked call over one computed column and one column of a table
C23_Witness ==
    /\ Merged
    /\ ColumnCount = 2
    /\ Cardinality(TableOrigins) = 1
    /\ ops = <<"PREPARE", "PG_ATTRIBUTE", "PG_PREPARED", "EXPLAIN", "CLOSE">>

(***************************************************************************)
(* C24: validating never closes the connection it works on; validate_all   *)
(* never closes a connection its caller passed; a connection validate_all  *)
(* opened from a URL is closed on every path that leaves validate_all.     *)
(***************************************************************************)
C24_ConnectionOwnership ==
    /\ val_pc = "validating" => conn.state = "open"
    /\ conn.given = "connection" => conn.state = "open"
    /\ conn.given = "url" /\ (ValReturned \/ ValRaised) => conn.state # "open"
    /\ conn.given = "url" /\ (ValReturned \/ cursor >= 1) /\ val_pc # "validating" =>
          conn.state = "closed"

\* a validation error propagated out of validate_all(url), after a first producer
\* had been validated on the same connection
C24_Witness ==
    /\ FailedValidation
    /\ cursor = 2
    /\ count = 1
    /\ conn = Conn("url", "closed")

(***************************************************************************)
(* Vocabulary of fetching                                                  *)
(***************************************************************************)
HasFetched == fetched.method # "none"

NoRows == fetch_answer.rows = <<>>

\* the executor is one the async methods accept, or a DB-API connection
SupportedExecutor == fetched.call.executor # "other"

\* a sync call reads the column names from cursor.description
DescriptionRead == fetched.call.executor = "dbapi" => fetch_answer.has_description

\* a dataclass can be built from a row: its fields are the columns
FieldsAreColumns ==
    fetch_type.kind = "record" =>
        {fetch_type.fields[j].name : j \in 1..Len(fetch_type.fields)}
            = {fetch_answer.cols[i] : i \in 1..Len(fetch_answer.cols)}

CellOf(r, name) ==
    fetch_answer.rows[r][CHOOSE i \in 1..Len(fetch_answer.cols) : fetch_answer.cols[i] = name]

\* the value of row r: its first cell, or the dataclass whose fields hold the
\* cells of their columns
ValueOfRow(r) ==
    IF fetch_type.kind = "record"
      THEN [cls |-> "instance", of |-> fetch_type,
            attrs |-> [n \in {fetch_type.fields[j].name : j \in 1..Len(fetch_type.fields)}
                          |-> CellOf(r, n)]]
    ELSE fetch_answer.rows[r][1]

(***************************************************************************)
(* C25: with no rows fetch_one raises RuntimeError and fetch_optional      *)
(* returns None; with at least one row both return the value built from    *)
(* the first row; fetch_all returns one value per row, in row order, and   *)
(* the empty list for no rows. On a Query or through a client, sync and    *)
(* async, for a supported executor and a result type the rows fit.         *)
(***************************************************************************)
C25_FetchByRowCount ==
    (HasFetched /\ SupportedExecutor) =>
        /\ (fetched.method = "fetch_one" /\ NoRows) =>
              /\ fetched.out.raised.kind = "RuntimeError"
              /\ fetched.out.returned = NotReturned
        /\ (fetched.method = "fetch_optional" /\ NoRows) =>
              /\ fetched.out.raised = NoException
              /\ fetched.out.returned = ReturnedNone
        /\ (fetched.method \in {"fetch_one", "fetch_optional"} /\ ~NoRows
            /\ FieldsAreColumns) =>
              /\ fetched.out.raised = NoException
              /\ fetched.out.returned.kind = "value"
              /\ fetched.out.returned.value = ValueOfRow(1)
        /\ (fetched.method = "fetch_all" /\ FieldsAreColumns /\ DescriptionRead) =>
              /\ fetched.out.raised = NoException
              /\ fetched.out.returned.kind = "list"
              /\ Len(fetched.out.returned.values) = Len(fetch_answer.rows)
              /\ \A r \in 1..Len(fetch_answer.rows) :
                    fetched.out.returned.values[r] = ValueOfRow(r)

\* fetch_one through a client on two rows that differ, built into a dataclass of
\* two fields
C25_Witness ==
    /\ fetched.method = "fetch_one"
    /\ fetched.call.via = "client"
    /\ fetch_type.kind = "record"
    /\ Len(fetch_type.fields) = 2
    /\ Len(fetch_answer.rows) = 2
    /\ fetch_answer.rows[1] # fetch_answer.rows[2]
    /\ fetched.out.raised = NoException
    /\ fetched.out.returned.value.attrs["front"] = fetch_answer.rows[1][2]

(***************************************************************************)
(* Vocabulary of the walk, node by node                                    *)
(***************************************************************************)
Walked == ~explain_plan.is_none

ParsedPlan == ParsePlan(explain_plan.plan)

\* the node of the plan reached from the root by these child indices
RECURSIVE NodeAt(_, _)
NodeAt(node, path) ==
    IF path = <<>> THEN node ELSE NodeAt(node.children[Head(path)], Tail(path))

\* the paths of all nodes of the plan
RECURSIVE PathsOf(_)
PathsOf(node) ==
    {<<>>} \cup UNION { { <<k>> \o p : p \in PathsOf(node.children[k]) } :
                         k \in 1..Len(node.children) }

VisitedPaths == {visited[k] : k \in 1..Len(visited)}

\* a node whose visit marks: Full join, or the inner child of its parent
Marks(node) == node.join_type = "Full" \/ node.parent_relation = "Inner"

\* position i of the root output holds an expression that a visited, marking node
\* outputs
ShouldMark(i) ==
    \E p \in VisitedPaths :
        /\ Marks(NodeAt(ParsedPlan, p))
        /\ InList(ParsedPlan.output[i], NodeAt(ParsedPlan, p).output)

MarkedPositions == {i \in 1..Len(nullables) : nullables[i]}

\* the overrides of the marked positions among the first n, in position order
RECURSIVE OverridesOf(_)
OverridesOf(n) ==
    IF n = 0 THEN <<>>
    ELSE IF nullables[n]
      THEN Append(OverridesOf(n - 1), NullabilityOverride(unresolved[n].name, TRUE))
    ELSE OverridesOf(n - 1)

(***************************************************************************)
(* C26: the final vector marks exactly the positions of the root output    *)
(* whose expression appears in the output of a visited node that is a Full *)
(* join or an inner child, every such position, also when the expression   *)
(* occurs at several positions; the walk returns one override (described   *)
(* name, is_nullable true) per marked position and nothing else.           *)
(***************************************************************************)
C26_EveryPositionMarked ==
    Walked =>
        /\ Len(nullables) = Len(ParsedPlan.output)
        /\ \A i \in 1..Len(nullables) : nullables[i] = ShouldMark(i)
        /\ explain_nullability = OverridesOf(Len(nullables))

\* the proper prefixes of a path: the paths of the proper ancestors of its node
ProperAncestors(path) == {SubSeq(path, 1, k) : k \in 0..(Len(path) - 1)}

\* every proper ancestor of the node is a Left or a Right join
UnderOuterJoinsOnly(path) ==
    \A a \in ProperAncestors(path) : NodeAt(ParsedPlan, a).join_type \in {"Left", "Right"}

(***************************************************************************)
(* C27: the walk visits a node if and only if the node is the root or      *)
(* every proper ancestor of it is a Left or Right join; the children of a  *)
(* Full join, an inner join or a node that is no join are never visited    *)
(* and mark nothing; each node is visited at most once.                    *)
(***************************************************************************)
C27_DescendsThroughLeftRightOnly ==
    Walked =>
        /\ \A p \in PathsOf(ParsedPlan) : (p \in VisitedPaths) <=> UnderOuterJoinsOnly(p)
        /\ VisitedPaths \subseteq PathsOf(ParsedPlan)
        /\ \A j, k \in 1..Len(visited) : j # k => visited[j] # visited[k]
        /\ \A i \in 1..Len(nullables) :
              nullables[i] =>
                  \E p \in PathsOf(ParsedPlan) :
                      /\ UnderOuterJoinsOnly(p)
                      /\ Marks(NodeAt(ParsedPlan, p))
                      /\ InList(ParsedPlan.output[i], NodeAt(ParsedPlan, p).output)

\* a Left join under a node that is no join: the walk stops at the root although
\* the inner child of the join outputs a result column
C27_Witness ==
    /\ Walked
    /\ ParsedPlan.join_type = "None"
    /\ Len(ParsedPlan.children) = 1
    /\ ParsedPlan.children[1].join_type = "Left"
    /\ \E k \in 1..Len(ParsedPlan.children[1].children) :
          /\ ParsedPlan.children[1].children[k].parent_relation = "Inner"
          /\ ParsedPlan.children[1].children[k].output # <<>>
    /\ visited = << <<>> >>
    /\ MarkedPositions = {}

(***************************************************************************)
(* Vocabulary of the raw names                                             *)
(***************************************************************************)
Described == pc = "described"

RawNameOf(i) == stmt_cols.list[i].name

\* the suffix character the raw name of column i ends in, Absent if none
SuffixOf(i) ==
    IF Len(RawNameOf(i)) > 0 /\ RawNameOf(i)[Len(RawNameOf(i))] \in {"!", "?"}
      THEN RawNameOf(i)[Len(RawNameOf(i))]
    ELSE Absent

\* the raw name of column i without its one suffix character
StrippedOnce(i) ==
    IF SuffixOf(i) = Absent THEN RawNameOf(i)
    ELSE [k \in 1..(Len(RawNameOf(i)) - 1) |-> RawNameOf(i)[k]]

\* the overrides of the suffixed columns among the first n, in column order
RECURSIVE SuffixOverrides(_)
SuffixOverrides(n) ==
    IF n = 0 THEN <<>>
    ELSE IF SuffixOf(n) = Absent THEN SuffixOverrides(n - 1)
    ELSE Append(SuffixOverrides(n - 1),
                [name |-> StrippedOnce(n), is_nullable |-> (SuffixOf(n) = "?")])

(***************************************************************************)
(* C28: describe strips exactly one trailing character from a raw name     *)
(* that ends in `!` or `?` and records one override for it (false for `!`, *)
(* true for `?`); a name with neither is kept and gets no override; the    *)
(* UnresolvedColumn and the ColumnOrigin at an index carry the same        *)
(* stripped name; both lists have one entry per result column, in result   *)
(* order; a statement without result columns yields three empty lists and  *)
(* no error.                                                               *)
(***************************************************************************)
C28_OneSuffixStripped ==
    Described =>
        /\ raised = NoException
        /\ Len(unresolved) = ColumnCount
        /\ Len(origins) = ColumnCount
        /\ \A i \in 1..ColumnCount :
              /\ unresolved[i].name = StrippedOnce(i)
              /\ origins[i].name = unresolved[i].name
              /\ unresolved[i].python_type = PG_TYPES[stmt_cols.list[i].type_oid].python_type
              /\ origins[i].table_oid = stmt_cols.list[i].table_oid
              /\ origins[i].column_attrnum = stmt_cols.list[i].column_attrnum
        /\ query_overrides = SuffixOverrides(ColumnCount)
        /\ ColumnCount = 0 =>
              unresolved = <<>> /\ origins = <<>> /\ query_overrides = <<>>

\* a column named `a!?` next to a column named `a`: one character stripped, the
\* name a! kept with its `!`, one override
C28_Witness ==
    /\ Described
    /\ ColumnCount = 2
    /\ RawNameOf(1) = <<"a", "!", "?">>
    /\ RawNameOf(2) = <<"a">>
    /\ unresolved[1].name = <<"a", "!">>
    /\ query_overrides = << [name |-> <<"a", "!">>, is_nullable |-> TRUE] >>

\* result columns i and j are two columns with one display name
Namesakes(i, j) == i # j /\ DisplayName(i) = DisplayName(j)

(***************************************************************************)
(* C29: when two result columns share a display name after the annotation  *)
(* is stripped, each still resolves to what the precedence rule gives for  *)
(* its own annotation, its own explain mark and the catalog value of its   *)
(* own origin.                                                             *)
(***************************************************************************)
C29_NamesakesIndependent ==
    Merged =>
        \A i, j \in 1..ColumnCount :
            Namesakes(i, j) =>
                /\ resolved[i].name = resolved[j].name
                /\ resolved[i].nullable = OwnNullability(i)
                /\ resolved[j].nullable = OwnNullability(j)

(***************************************************************************)
(* Vocabulary of the loop over the registered producers                    *)
(***************************************************************************)
\* validate_all was called as its signature allows and has a connection to
\* validate on: the loop of _validate was entered
EnteredLoop == val_pc # "idle" /\ verbose = Absent /\ conn.state # "none"

\* the producer can be called with dummy arguments and its query has no fatal
\* error and no validation error
Validates(fn) ==
    /\ Dummyable(fn)
    /\ OutcomeOf(fn).raised = NoException
    /\ ErrorListOf(fn) = <<>>

AllValidate == \A k \in 1..Len(queries) : Validates(queries[k])

\* the registrations 1..n, in registration order
Registrations(n) == [k \in 1..n |-> k]

(***************************************************************************)
(* C30: validate_all processes the registered producers in registration    *)
(* order, each once; it returns the number of registered producers if and  *)
(* only if every one validates (Execute producers included); when a        *)
(* producer fails, the error propagates, no count is returned and no later *)
(* producer is invoked or sent to the database.                            *)
(***************************************************************************)
C30_InOrderUntilFirstFailure ==
    EnteredLoop =>
        /\ cursor <= Len(queries)
        /\ \A k \in 1..(cursor - 1) : Validates(queries[k])
        /\ collected = invoked
        /\ val_pc = "validating" =>
              invoked = Registrations(cursor) /\ count = cursor
        /\ ValReturned =>
              /\ AllValidate
              /\ cursor = Len(queries)
              /\ invoked = Registrations(Len(queries))
              /\ count = Len(queries)
              /\ val_raised.exc = NoException
        /\ ValRaised =>
              /\ cursor >= 1
              /\ ~Validates(CurrentFn)
              /\ val_raised.exc # NoException
              /\ invoked = Registrations(IF Dummyable(CurrentFn) THEN cursor ELSE cursor - 1)
              /\ count = cursor - 1
        /\ (val_pc # "validating" /\ AllValidate) => ValReturned

\* the first of two registered producers fails: the second is never invoked
C30_Witness ==
    /\ EnteredLoop
    /\ ValRaised
    /\ Len(queries) = 2
    /\ cursor = 1
    /\ Validates(queries[2])
    /\ queries[2].returns.cls = "Execute"
    /\ invoked = <<1>>
    /\ collected = <<1>>

====
